---- MODULE Spec2Model ----
(***************************************************************************)
(* A model of the backup/restore engine of localai_cli.py: the commands    *)
(* `export` (LocalAICLI.export_environment) and `import`                   *)
(* (LocalAICLI.import_environment) run by main(), together with the host   *)
(* they act on: the backups/ directory, the config files of the working    *)
(* directory, the docker volumes and the compose services.                 *)
(*                                                                         *)
(* Names (backup names, volume names, file names inside volumes/) are      *)
(* sequences of tokens, so that the f-strings and the Path.stem /          *)
(* str.replace calls of the code are computed and not assumed.             *)
(***************************************************************************)
EXTENDS Naturals, Sequences, FiniteSets, TLC

VARIABLES
    pc,          \* position of the running command inside main()
    cmd,         \* the parsed command line (args of main)
    loc,         \* local variables of export_environment / import_environment
    ret,         \* value returned by export_environment / import_environment
    exitCode,    \* exit status of the process, "none" while it runs
    out,         \* what the command has printed, in order
    calls,       \* the external commands the process has run, in order
    runs,        \* number of commands started so far
    archives,    \* backups/<name>.tar.gz    : name -> file
    sidecars,    \* backups/<name>.tar.gz.sha256 : name -> text (tokens)
    exportDirs,  \* backups/<name>/          : name -> directory
    restoreTemp, \* backups/restore_temp/    : <<>> or <<tree>>
    cwd,         \* config files of the working directory: path -> content
    volumes,     \* docker volumes: name -> content (file -> version)
    servicesUp,  \* whether the compose project's containers are running
    origin,      \* where each archive came from, and whether it was altered
    peer,        \* a second `export` process on the same backups/: <<>> or <<state>>
    restored     \* history: what the first import of each backup file has restored

procVars == <<pc, cmd, loc, ret, exitCode, out, calls, runs>>
fsVars   == <<archives, sidecars, exportDirs, restoreTemp, cwd, origin>>
hostVars == <<volumes, servicesUp>>
vars     == <<pc, cmd, loc, ret, exitCode, out, calls, runs, archives, sidecars,
              exportDirs, restoreTemp, cwd, volumes, servicesUp, origin, peer,
              restored>>

----------------------------------------------------------------------------
(* Bounds of the model *)

\* how many commands one behaviour runs one after the other
MaxRuns == 2

\* how many external commands may fail during one run of a command
MaxFaults == 1

----------------------------------------------------------------------------
(* Generic helpers *)

\* dict.update: the keys of e override those of d
DictUpdate(d, e) ==
    [k \in (DOMAIN d) \cup (DOMAIN e) |-> IF k \in DOMAIN e THEN e[k] ELSE d[k]]

\* dict.get(k, default)
DictGet(d, k, default) == IF k \in DOMAIN d THEN d[k] ELSE default

\* a function with one more (or one overwritten) entry
Put(f, k, v) == [x \in (DOMAIN f) \cup {k} |-> IF x = k THEN v ELSE f[x]]

\* a function without the entry k
Drop(f, k) == [x \in (DOMAIN f) \ {k} |-> f[x]]

\* the elements of a finite set of sequences in a fixed order
RECURSIVE SetToSeq(_)
SetToSeq(S) ==
    IF S = {} THEN <<>>
    ELSE LET x == CHOOSE y \in S : TRUE IN <<x>> \o SetToSeq(S \ {x})

\* the elements of a sequence
Range(s) == {s[i] : i \in 1..Len(s)}

----------------------------------------------------------------------------
(* The data of the program *)

Formats == {"full", "config", "minimal"}

\* --output NAME, or <<>> when the option is not given; the name given is
\* the one the clock would give, so that both ways name the same backup
OutputNames == {<<>>, <<"localai_backup_", "20250101_120000">>}

\* values of datetime.now().strftime("%Y%m%d_%H%M%S")
Timestamps == {"20250101_120000"}

\* output_name, or the name derived from the clock
BackupName(output_name, ts) ==
    IF output_name = <<>> THEN <<"localai_backup_", ts>> ELSE output_name

BackupNames == {BackupName(n, ts) : n \in OutputNames, ts \in Timestamps}

\* the volumes docker can list for the project
HostVolumeNames == {<<"localai_db">>, <<"localai", ".tar", "_n8n">>}

\* files inside a volume and their contents
VolFiles == {"a", "b"}

\* f"{volume_name}.tar.gz"
VolumeArchiveName(volume_name) == volume_name \o <<".tar", ".gz">>

\* Path.stem: the name without its last suffix
Stem(file_name) ==
    IF Len(file_name) > 1 /\ file_name[Len(file_name)] \in {".gz", ".tar"}
    THEN SubSeq(file_name, 1, Len(file_name) - 1)
    ELSE file_name

\* str.replace(".tar", ""): every occurrence is removed
RECURSIVE ReplaceTar(_)
ReplaceTar(s) ==
    IF s = <<>> THEN <<>>
    ELSE IF Head(s) = ".tar" THEN ReplaceTar(Tail(s))
    ELSE <<Head(s)>> \o ReplaceTar(Tail(s))

\* volume_backup.stem.replace(".tar", "")
ImportVolumeName(file_name) == ReplaceTar(Stem(file_name))

\* the config files export_environment looks for, in order
ConfigFiles ==
    << ".env", ".env.enc", ".sops.yaml", "docker-compose.yml",
       "docker-compose.override.private.yml",
       "docker-compose.override.public.yml", "Caddyfile",
       ".bootstrap_metadata.json" >>

SearxngSettings == "searxng/settings.yml"

\* json.load of .bootstrap_metadata.json, by the content of the file
BootstrapMeta(content) ==
    IF content = 1
    THEN [hardware_profile |-> "cpu", environment |-> "private",
          created_at |-> "2025-01-01 12:00:00"]
    ELSE [hardware_profile |-> "gpu-nvidia", environment |-> "public",
          format |-> "config"]

\* the keys of the manifest whose values are lists
ListKeys == {"containers", "volumes"}

\* json.dump of a dict with string keys: the text of manifest.json, as the
\* sequence of its members; a str is written as a JSON string, a list as a
\* JSON array
JsonDump(d) ==
    SetToSeq({<<k, <<IF k \in ListKeys THEN "array" ELSE "string", d[k]>>>> :
                 k \in DOMAIN d})

\* faulty variant: only the members the reader knows are kept
JsonLoad_KnownOnly(text) ==
    [k \in {text[i][1] : i \in 1..Len(text)}
            \cap {"version", "timestamp", "format", "containers", "volumes"} |->
        text[CHOOSE i \in 1..Len(text) : text[i][1] = k][2][2]]

\* json.load: a dict with one key for each member name of the object; of
\* two members of one name the later one counts
JsonLoad(text) ==
    [k \in {text[i][1] : i \in 1..Len(text)} |->
        text[CHOOSE i \in 1..Len(text) :
                /\ text[i][1] = k
                /\ \A j \in 1..Len(text) : text[j][1] = k => j <= i][2][2]]

\* hashlib.sha256 of a file's bytes: the digest names the bytes
Sha256(file) == <<"sha256", file>>

\* faulty variant: the digest written is the one of other bytes than those
\* of the archive (one byte more was hashed)
SidecarText_OtherDigest(checksum, archive_name) ==
    <<<<checksum[1], [checksum[2] EXCEPT !.pad = @ + 1]>>>> \o archive_name

\* f"{checksum}  {archive_path.name}\n", as whitespace separated tokens
SidecarText(checksum, archive_name) == <<checksum>> \o archive_name

\* f.read().split()[0]
ExpectedChecksum(text) == text[1]

\* a directory with nothing in it
EmptyDir == [manifest |-> <<>>, configs |-> <<>>, volumes |-> <<>>]

\* a directory merged with another one written over it (tar extraction,
\* mkdir(exist_ok=True) followed by writes)
MergeOpt(old, new) ==
    IF new = <<>> THEN old
    ELSE IF old = <<>> THEN new
    ELSE <<DictUpdate(old[1], new[1])>>

MergeConfigs(old, new) ==
    IF new = <<>> THEN old
    ELSE IF old = <<>> THEN new
    ELSE <<[files |-> DictUpdate(old[1].files, new[1].files),
            searxng |-> MergeOpt(old[1].searxng, new[1].searxng)]>>

MergeDir(old, new) ==
    [manifest |-> IF new.manifest = <<>> THEN old.manifest ELSE new.manifest,
     configs  |-> MergeConfigs(old.configs, new.configs),
     volumes  |-> MergeOpt(old.volumes, new.volumes)]

MergeTree(old, new) ==
    [d \in (DOMAIN old) \cup (DOMAIN new) |->
        IF d \notin DOMAIN new THEN old[d]
        ELSE IF d \notin DOMAIN old THEN new[d]
        ELSE MergeDir(old[d], new[d])]

----------------------------------------------------------------------------
(* Outcomes of the external commands *)

\* subprocess.run: exit status 0, another exit status, TimeoutExpired raised,
\* OSError raised because the program could not be started
HelperOutcomes == {"ok", "nonzero", "timeout", "nolaunch"}

\* docker ps / docker volume ls / docker compose down: an exit status
ExitOutcomes == {"ok", "nonzero"}

\* no command is running
NoCmd == [command |-> "none"]
NoLoc == [none |-> TRUE]

\* the external commands of the current run that did not end with status 0
Faults == Cardinality({i \in 1..Len(calls) : calls[i][3] \notin {"ok", "issued"}})

\* the outcomes an external command may have at this point
Allowed(outcomes) == IF Faults < MaxFaults THEN outcomes ELSE outcomes \cap {"ok"}

----------------------------------------------------------------------------
(* Initial state: nothing runs, backups/ is empty *)

InitCwds ==
    { [f \in {".env"} |-> 1],
      [f \in {".env", ".bootstrap_metadata.json", SearxngSettings} |->
          IF f = ".bootstrap_metadata.json" THEN 1 ELSE 2] }

InitVolumes ==
    { [v \in HostVolumeNames |->
          IF v = <<"localai_db">> THEN [f \in VolFiles |-> 1]
          ELSE [f \in {"a"} |-> 2]] }

Init ==
    /\ pc = "idle"
    /\ cmd = NoCmd
    /\ loc = NoLoc
    /\ ret = "none"
    /\ exitCode = "none"
    /\ out = <<>>
    /\ calls = <<>>
    /\ runs = 0
    /\ archives = <<>>
    /\ sidecars = <<>>
    /\ exportDirs = <<>>
    /\ restoreTemp = <<>>
    /\ cwd \in InitCwds
    /\ volumes \in InitVolumes
    /\ servicesUp = TRUE
    /\ origin = <<>>
    /\ peer = <<>>
    /\ restored = <<>>

----------------------------------------------------------------------------
(* Pieces shared by the two commands *)

Emit(line) == out' = Append(out, line)

\* an exception leaves main(): traceback, exit status 1
Crash ==
    /\ pc' = "crashed"
    /\ ret' = "raised"
    /\ exitCode' = 1

\* --filter name=localai
InProject(volume_name) ==
    \E i \in 1..Len(volume_name) : volume_name[i] \in {"localai", "localai_db"}

\* get_running_containers() for one result of docker ps
GetRunningContainers(outcome) ==
    IF outcome = "ok" /\ servicesUp THEN <<"localai-n8n-1">> ELSE <<>>

\* faulty variant: the exit status of docker volume ls is not looked at
GetDockerVolumes_IgnoreStatus(outcome) ==
    SetToSeq({v \in DOMAIN volumes : InProject(v)})

\* get_docker_volumes() for one result of docker volume ls
GetDockerVolumes(outcome) ==
    IF outcome = "ok"
    THEN SetToSeq({v \in DOMAIN volumes : InProject(v)})
    ELSE <<>>

----------------------------------------------------------------------------
(* export: main() and export_environment *)

\* main() parses the command line; export_environment names and creates
\* the scratch directory backups/<output_name>
ExportStart ==
    /\ pc = "idle"
    /\ runs < MaxRuns
    /\ \E output \in OutputNames, format \in Formats, ts \in Timestamps :
          LET output_name == BackupName(output, ts) IN
          /\ cmd' = [command |-> "export", output |-> output, format |-> format]
          /\ loc' = [output_name |-> output_name, metadata |-> <<>>, todo |-> <<>>]
          /\ exportDirs' = IF output_name \in DOMAIN exportDirs
                           THEN exportDirs
                           ELSE Put(exportDirs, output_name, EmptyDir)
    /\ pc' = "exp_metadata"
    /\ runs' = runs + 1
    /\ out' = <<<<"header", <<"export">>>>>>
    /\ calls' = <<>>
    /\ ret' = "none"
    /\ exitCode' = "none"
    /\ UNCHANGED <<archives, sidecars, restoreTemp, cwd, origin, hostVars, peer, restored>>

\* the metadata dict of export_environment, before the external metadata
BaseMetadata(format, ts, containers, vols) ==
    [version |-> "1.0", timestamp |-> ts, format |-> format,
     containers |-> containers, volumes |-> vols]

\* faulty variant: a key of the external metadata that is a key of the
\* defaults does not replace it
WithBootstrapMeta_DefaultsWin(metadata) ==
    IF ".bootstrap_metadata.json" \in DOMAIN cwd
    THEN DictUpdate(BootstrapMeta(cwd[".bootstrap_metadata.json"]), metadata)
    ELSE metadata

\* metadata.update(bootstrap_meta) when .bootstrap_metadata.json exists
WithBootstrapMeta(metadata) ==
    IF ".bootstrap_metadata.json" \in DOMAIN cwd
    THEN DictUpdate(metadata, BootstrapMeta(cwd[".bootstrap_metadata.json"]))
    ELSE metadata

\* collect the metadata and write manifest.json
ExportMetadata ==
    /\ pc = "exp_metadata"
    /\ loc.output_name \in DOMAIN exportDirs
    /\ \E ps \in Allowed(ExitOutcomes), ls \in Allowed(ExitOutcomes), ts \in Timestamps :
          LET metadata == WithBootstrapMeta(
                              BaseMetadata(cmd.format, ts,
                                           GetRunningContainers(ps),
                                           GetDockerVolumes(ls)))
              dir == exportDirs[loc.output_name]
          IN  /\ exportDirs' = Put(exportDirs, loc.output_name,
                                   [dir EXCEPT !.manifest = <<JsonDump(metadata)>>])
              /\ loc' = [loc EXCEPT !.metadata = <<metadata>>]
              /\ calls' = calls \o << <<"docker_ps", <<>>, ps>>,
                                      <<"docker_volume_ls", <<>>, ls>> >>
              /\ Cardinality({c \in {<<1, ps>>, <<2, ls>>} : c[2] # "ok"}) + Faults <= MaxFaults
    /\ Emit(<<"metadata_saved", <<>>>>)
    /\ pc' = "exp_configs"
    /\ UNCHANGED <<cmd, ret, exitCode, runs, archives, sidecars,
                   restoreTemp, cwd, origin, hostVars, peer, restored>>

\* the files of config_files that exist, as copied into configs/
CopiedConfigs ==
    [f \in {ConfigFiles[i] : i \in 1..Len(ConfigFiles)} \cap DOMAIN cwd |-> cwd[f]]

\* configs/searxng/, made only when searxng/settings.yml exists
CopiedSearxng ==
    IF SearxngSettings \in DOMAIN cwd
    THEN <<[f \in {"settings.yml"} |-> cwd[SearxngSettings]]>>
    ELSE <<>>

\* copy the config files into configs/
ExportConfigs ==
    /\ pc = "exp_configs"
    /\ loc.output_name \in DOMAIN exportDirs
    /\ LET dir == exportDirs[loc.output_name]
           new == <<[files |-> CopiedConfigs, searxng |-> CopiedSearxng]>>
       IN  exportDirs' = Put(exportDirs, loc.output_name,
                             [dir EXCEPT !.configs = MergeConfigs(dir.configs, new)])
    /\ calls' = calls \o [i \in 1..Len(SetToSeq(DOMAIN CopiedConfigs)) |->
                            <<"cp", <<SetToSeq(DOMAIN CopiedConfigs)[i]>>, "ok">>]
    /\ Emit(<<"configs_exported", <<>>>>)
    /\ pc' = "exp_volumes"
    /\ UNCHANGED <<cmd, loc, ret, exitCode, runs, archives, sidecars,
                   restoreTemp, cwd, origin, hostVars, peer, restored>>

\* if format == "full"
ExportsVolumes(format) == format = "full"

\* volumes/ is made and the volumes are listed again, or the step is skipped
ExportVolumesBegin ==
    /\ pc = "exp_volumes"
    /\ \/ /\ ExportsVolumes(cmd.format)
          /\ loc.output_name \in DOMAIN exportDirs
          /\ \E ls \in Allowed(ExitOutcomes) :
                /\ loc' = [loc EXCEPT !.todo = GetDockerVolumes(ls)]
                /\ calls' = Append(calls, <<"docker_volume_ls", <<>>, ls>>)
                /\ pc' = IF GetDockerVolumes(ls) = <<>> THEN "exp_pack" ELSE "exp_volume"
          /\ LET dir == exportDirs[loc.output_name] IN
             exportDirs' = Put(exportDirs, loc.output_name,
                               [dir EXCEPT !.volumes = MergeOpt(dir.volumes, <<<<>>>>)])
       \/ /\ ~ExportsVolumes(cmd.format)
          /\ pc' = "exp_pack"
          /\ UNCHANGED <<loc, calls, exportDirs>>
    /\ UNCHANGED <<cmd, ret, exitCode, out, runs, archives, sidecars,
                   restoreTemp, cwd, origin, hostVars, peer, restored>>

\* what a helper that did not finish may leave at /backup/<volume>.tar.gz
LeftBehind(content) ==
    { <<>>, <<[data |-> <<>>, intact |-> FALSE]>> }

\* the result of export_docker_volume for an outcome of the helper:
\* TRUE, FALSE, or "raised" when subprocess.run raises
ExportVolumeResult(outcome) ==
    IF outcome = "ok" THEN "True"
    ELSE IF outcome = "nonzero" THEN "False"
    ELSE "raised"

\* faulty variant: the loop ends at the first volume that fails
AfterExportVolume_Abort(result, rest) ==
    IF result = "raised" THEN "crashed"
    ELSE IF rest = <<>> \/ result = "False" THEN "exp_pack"
    ELSE "exp_volume"

\* faulty variant: the tarball is made after the first volume
AfterExportVolume_PackEarly(result, rest) ==
    IF result = "raised" THEN "crashed" ELSE "exp_pack"

\* where the for loop of export_environment goes after one volume
AfterExportVolume(result, rest) ==
    IF result = "raised" THEN "crashed"
    ELSE IF rest = <<>> THEN "exp_pack"
    ELSE "exp_volume"

\* one pass of the loop: export_docker_volume(volume, volumes_dir)
ExportVolume ==
    /\ pc = "exp_volume"
    /\ loc.todo # <<>>
    /\ LET volume  == Head(loc.todo)
           content == DictGet(volumes, volume, <<>>)
           \* docker run -v makes the host directory when it is not there
           dir     == [DictGet(exportDirs, loc.output_name, EmptyDir)
                         EXCEPT !.volumes = MergeOpt(@, <<<<>>>>)]
           file    == VolumeArchiveName(volume)
       IN \E outcome \in Allowed(HelperOutcomes) :
          LET result == ExportVolumeResult(outcome)
              next   == AfterExportVolume(result, Tail(loc.todo))
          IN
          /\ \E left \in (IF outcome = "ok"
                          THEN {<<[data |-> content, intact |-> TRUE]>>}
                          ELSE IF outcome = "nolaunch" THEN {<<>>}
                          ELSE LeftBehind(content)) :
                exportDirs' =
                    IF outcome = "nolaunch" THEN exportDirs
                    ELSE IF left = <<>> THEN Put(exportDirs, loc.output_name, dir)
                    ELSE Put(exportDirs, loc.output_name,
                             [dir EXCEPT !.volumes = <<Put(dir.volumes[1], file, left[1])>>])
          \* docker run -v creates a named volume that does not exist
          /\ volumes' = IF outcome # "nolaunch" /\ volume \notin DOMAIN volumes
                        THEN Put(volumes, volume, <<>>)
                        ELSE volumes
          /\ calls' = Append(calls, <<"docker_run_export", volume, outcome>>)
          /\ out' = out \o <<<<"exporting_volume", volume>>>> \o
                       (IF result = "True" THEN <<<<"exported", file>>>>
                        ELSE IF result = "False" THEN <<<<"failed_to_export", <<>>>>>>
                        ELSE <<<<"traceback", <<>>>>>>)
          /\ pc' = next
          /\ loc' = [loc EXCEPT !.todo = IF next = "crashed" THEN loc.todo ELSE Tail(loc.todo)]
          /\ ret' = IF next = "crashed" THEN "raised" ELSE ret
          /\ exitCode' = IF next = "crashed" THEN 1 ELSE exitCode
    /\ UNCHANGED <<cmd, runs, archives, sidecars, restoreTemp, cwd, origin, servicesUp, peer, restored>>

\* the archive tarfile writes: one top-level directory named output_name
PackedTree(output_name, dir) == [d \in {output_name} |-> dir]

\* tarfile.open(archive_path, "w:gz"); tar.add(export_dir, arcname=output_name)
ExportPack ==
    /\ pc = "exp_pack"
    /\ \/ /\ loc.output_name \in DOMAIN exportDirs
          /\ archives' = Put(archives, loc.output_name,
                             [tree |-> PackedTree(loc.output_name, exportDirs[loc.output_name]),
                              pad |-> 0, readable |-> TRUE])
          /\ origin' = Put(origin, loc.output_name, "export")
          /\ calls' = Append(calls, <<"tar_create", loc.output_name, "ok">>)
          /\ Emit(<<"creating_archive", loc.output_name>>)
          /\ pc' = "exp_checksum"
          /\ UNCHANGED <<ret, exitCode>>
       \/ \* the archive cannot be written (OSError): a truncated file is left
          /\ Faults < MaxFaults
          /\ archives' = Put(archives, loc.output_name,
                             [tree |-> <<>>, pad |-> 0, readable |-> FALSE])
          /\ origin' = Put(origin, loc.output_name, "export_failed")
          /\ calls' = Append(calls, <<"tar_create", loc.output_name, "raised">>)
          /\ Emit(<<"traceback", <<>>>>)
          /\ Crash
    /\ UNCHANGED <<cmd, loc, runs, sidecars, exportDirs, restoreTemp, cwd, hostVars, peer, restored>>

\* the digest of the archive is written to <archive>.sha256
ExportChecksum ==
    /\ pc = "exp_checksum"
    /\ sidecars' = Put(sidecars, loc.output_name,
                       SidecarText(Sha256(archives[loc.output_name]),
                                   loc.output_name \o <<".tar", ".gz">>))
    /\ Emit(<<"calculating_checksum", <<>>>>)
    /\ pc' = "exp_cleanup"
    /\ UNCHANGED <<cmd, loc, ret, exitCode, calls, runs, archives, exportDirs,
                   restoreTemp, cwd, origin, hostVars, peer, restored>>

\* rm -rf export_dir, the summary, return archive_path; main() falls off its end
ExportCleanup ==
    /\ pc = "exp_cleanup"
    /\ exportDirs' = Drop(exportDirs, loc.output_name)
    /\ calls' = Append(calls, <<"rm_rf", loc.output_name, "ok">>)
    /\ Emit(<<"export_complete", loc.output_name>>)
    /\ ret' = "archive_path"
    /\ exitCode' = 0
    /\ pc' = "done"
    /\ UNCHANGED <<cmd, loc, runs, archives, sidecars, restoreTemp, cwd, origin, hostVars, peer, restored>>

----------------------------------------------------------------------------
(* import: main() and import_environment *)

\* archives that do not come from export_environment
ForeignTrees ==
    [p \in {<<"empty">>, <<"bare">>, <<"two">>, <<"twin">>} |->
        IF p = <<"empty">> THEN <<>>
        ELSE IF p = <<"twin">>
        THEN [d \in {<<"stray">>, <<"other">>} |->
                 [manifest |-> <<JsonDump([version |-> "1.0", format |-> "config"])>>,
                  configs  |-> <<[files |-> [f \in {".env", ".bootstrap_metadata.json"} |->
                                                IF f = ".bootstrap_metadata.json" THEN 2
                                                ELSE IF d = <<"stray">> THEN 3 ELSE 4],
                                  searxng |-> <<>>]>>,
                  volumes  |-> <<>>]]
        ELSE IF p = <<"bare">>
        THEN [d \in {<<"stray">>} |->
                 [EmptyDir EXCEPT !.configs =
                     <<[files |-> [f \in {".env"} |-> 3], searxng |-> <<>>]>>]]
        ELSE [d \in {<<"stray">>, <<"other">>} |->
                IF d = <<"stray">> THEN EmptyDir
                ELSE [manifest |-> <<JsonDump([version |-> "1.0", format |-> "full"])>>,
                      configs  |-> <<[files |-> [f \in {".env"} |-> 3], searxng |-> <<>>]>>,
                      volumes  |-> <<[f \in {<<"localai_db", ".tar", ".gz">>} |->
                                        [data |-> [x \in {"a"} |-> 3], intact |-> TRUE]]>>]]]

\* archives made elsewhere and kept outside backups/, without a sidecar
ExternalFiles ==
    [p \in DOMAIN ForeignTrees |-> [tree |-> ForeignTrees[p], pad |-> 0, readable |-> TRUE]]

\* the paths `import` may be given: backups/<name>.tar.gz, or another file
BackupFiles == BackupNames \cup DOMAIN ExternalFiles \cup {<<"missing">>}

\* Path(backup_file).exists()
BackupExists(path) == path \in (DOMAIN archives) \cup (DOMAIN ExternalFiles)

\* the bytes of the backup file
BackupFile(path) == IF path \in DOMAIN archives THEN archives[path] ELSE ExternalFiles[path]

\* main() does not look at what export_environment / import_environment
\* return: the process ends with status 0 unless an exception left main()
MainExit(command, result) == IF result = "raised" THEN 1 ELSE 0

\* import_environment returns `result` to main(), which ends
Return(result) ==
    /\ ret' = result
    /\ exitCode' = MainExit(cmd.command, result)
    /\ pc' = IF result = "raised" THEN "crashed" ELSE "done"

\* main() parses the command line; import_environment looks for the file
ImportStart ==
    /\ pc = "idle"
    /\ runs < MaxRuns
    /\ \E backup_file \in BackupFiles, skip_volumes \in BOOLEAN :
          /\ cmd' = [command |-> "import", backup_file |-> backup_file,
                     skip_volumes |-> skip_volumes]
          /\ loc' = [restore_dir |-> <<>>, manifest |-> <<>>, todo |-> <<>>]
          /\ IF BackupExists(backup_file)
             THEN /\ out' = <<<<"header", <<"import">>>>>>
                  /\ pc' = "imp_verify"
                  /\ ret' = "none"
                  /\ exitCode' = "none"
             ELSE /\ out' = <<<<"header", <<"import">>>>, <<"backup_not_found", backup_file>>>>
                  /\ pc' = "done"
                  /\ ret' = "False"
                  /\ exitCode' = MainExit("import", "False")
    /\ runs' = runs + 1
    /\ calls' = <<>>
    /\ UNCHANGED <<fsVars, hostVars, peer, restored>>

\* faulty variant: the digests are not compared
ChecksumVerified_Always(actual, expected) == TRUE

\* sha256.hexdigest() == expected_checksum
ChecksumVerified(actual, expected) == actual = expected

\* faulty variant: a mismatch is only a warning
AfterVerify_Warn(verified) == "imp_extract"

\* where import_environment goes after comparing the digests
AfterVerify(verified) == IF verified THEN "imp_extract" ELSE "done"

\* the checksum is verified when <backup_file>.sha256 exists
ImportVerify ==
    /\ pc = "imp_verify"
    /\ IF cmd.backup_file \in DOMAIN sidecars
       THEN LET verified == ChecksumVerified(Sha256(BackupFile(cmd.backup_file)),
                                ExpectedChecksum(sidecars[cmd.backup_file]))
                next == AfterVerify(verified)
            IN  /\ out' = out \o <<<<"verifying_checksum", <<>>>>,
                                   IF verified THEN <<"checksum_verified", <<>>>>
                                   ELSE <<"checksum_mismatch", <<>>>> >>
                /\ pc' = next
                /\ ret' = IF next = "done" THEN "False" ELSE ret
                /\ exitCode' = IF next = "done" THEN MainExit("import", "False")
                               ELSE exitCode
       ELSE /\ pc' = "imp_extract"
            /\ UNCHANGED <<out, ret, exitCode>>
    /\ UNCHANGED <<cmd, loc, calls, runs, fsVars, hostVars, peer, restored>>

\* restore_temp is made if missing and the archive is extracted into it
ImportExtract ==
    /\ pc = "imp_extract"
    /\ LET file == BackupFile(cmd.backup_file)
           old  == IF restoreTemp = <<>> THEN <<>> ELSE restoreTemp[1]
       IN IF file.readable
          THEN /\ restoreTemp' = <<MergeTree(old, file.tree)>>
               /\ calls' = Append(calls, <<"tar_extract", cmd.backup_file, "ok">>)
               /\ Emit(<<"extracting", cmd.backup_file>>)
               /\ pc' = "imp_find"
               /\ UNCHANGED <<ret, exitCode>>
          ELSE \* tarfile.ReadError leaves main()
               /\ restoreTemp' = <<old>>
               /\ calls' = Append(calls, <<"tar_extract", cmd.backup_file, "raised">>)
               /\ out' = out \o <<<<"extracting", cmd.backup_file>>, <<"traceback", <<>>>>>>
               /\ Return("raised")
    /\ UNCHANGED <<cmd, loc, runs, archives, sidecars, exportDirs, cwd, origin, hostVars, peer, restored>>

\* backup_dirs: the subdirectories of restore_temp
BackupDirs == DOMAIN restoreTemp[1]

\* restore_dir = backup_dirs[0], in the order iterdir() happens to give
ImportFind ==
    /\ pc = "imp_find"
    /\ \/ /\ BackupDirs = {}
          /\ Emit(<<"invalid_backup_structure", <<>>>>)
          /\ Return("False")
          /\ UNCHANGED loc
       \/ /\ \E d \in BackupDirs : loc' = [loc EXCEPT !.restore_dir = d]
          /\ pc' = "imp_manifest"
          /\ UNCHANGED <<out, ret, exitCode>>
    /\ UNCHANGED <<cmd, calls, runs, fsVars, hostVars, peer, restored>>

RestoreDir == restoreTemp[1][loc.restore_dir]

\* faulty variant: the config files are not restored before the volumes
ImportManifest_SkipConfigs ==
    /\ pc = "imp_manifest"
    /\ \/ /\ RestoreDir.manifest = <<>>
          /\ Emit(<<"manifest_not_found", <<>>>>)
          /\ Return("False")
          /\ UNCHANGED loc
       \/ /\ RestoreDir.manifest # <<>>
          /\ loc' = [loc EXCEPT !.manifest = JsonLoad(RestoreDir.manifest[1])]
          /\ Emit(<<"backup_info", <<DictGet(JsonLoad(RestoreDir.manifest[1]),
                                             "format", "unknown")>>>>)
          /\ pc' = "imp_decide"
          /\ UNCHANGED <<ret, exitCode>>
    /\ UNCHANGED <<cmd, calls, runs, fsVars, hostVars, peer, restored>>

\* faulty variant: a backup without manifest.json is restored all the same
ImportManifest_Optional ==
    /\ pc = "imp_manifest"
    /\ loc' = [loc EXCEPT !.manifest = IF RestoreDir.manifest = <<>> THEN <<>>
                                       ELSE JsonLoad(RestoreDir.manifest[1])]
    /\ Emit(<<"backup_info", <<DictGet(IF RestoreDir.manifest = <<>> THEN <<>>
                                       ELSE JsonLoad(RestoreDir.manifest[1]),
                                       "format", "unknown")>>>>)
    /\ pc' = "imp_configs"
    /\ UNCHANGED <<cmd, ret, exitCode, calls, runs, fsVars, hostVars, peer, restored>>

\* manifest.json is read
ImportManifest ==
    /\ pc = "imp_manifest"
    /\ \/ /\ RestoreDir.manifest = <<>>
          /\ Emit(<<"manifest_not_found", <<>>>>)
          /\ Return("False")
          /\ UNCHANGED loc
       \/ /\ RestoreDir.manifest # <<>>
          /\ loc' = [loc EXCEPT !.manifest = JsonLoad(RestoreDir.manifest[1])]
          /\ Emit(<<"backup_info", <<DictGet(JsonLoad(RestoreDir.manifest[1]),
                                             "format", "unknown")>>>>)
          /\ pc' = "imp_configs"
          /\ UNCHANGED <<ret, exitCode>>
    /\ UNCHANGED <<cmd, calls, runs, fsVars, hostVars, peer, restored>>

\* the entries of configs/ that are files, under their base names
RestoredConfigs(dir) == IF dir.configs = <<>> THEN <<>> ELSE dir.configs[1].files

\* history of the config restores: the first import of a backup file (of
\* these bytes) is remembered with the files it has copied
FirstRestore(history, backup_file, bytes, configs) ==
    IF backup_file \in DOMAIN history /\ history[backup_file].bytes = bytes
    THEN history
    ELSE Put(history, backup_file, [bytes |-> bytes, configs |-> configs])

\* every file of configs/ is copied into the working directory
ImportConfigs ==
    /\ pc = "imp_configs"
    /\ cwd' = DictUpdate(cwd, RestoredConfigs(RestoreDir))
    /\ calls' = calls \o [i \in 1..Len(SetToSeq(DOMAIN RestoredConfigs(RestoreDir))) |->
                            <<"cp", <<SetToSeq(DOMAIN RestoredConfigs(RestoreDir))[i]>>, "ok">>]
    /\ Emit(<<"configs_restored", <<>>>>)
    /\ restored' = FirstRestore(restored, cmd.backup_file, BackupFile(cmd.backup_file),
                                RestoredConfigs(RestoreDir))
    /\ pc' = "imp_decide"
    /\ UNCHANGED <<cmd, loc, ret, exitCode, runs, archives, sidecars, exportDirs,
                   restoreTemp, origin, hostVars, peer>>

\* faulty variant: --skip-volumes is not looked at
RestoresVolumes_IgnoreSkip(skip_volumes, manifest) ==
    DictGet(manifest, "format", "none") = "full"

\* if not skip_volumes and manifest.get('format') == 'full'
RestoresVolumes(skip_volumes, manifest) ==
    ~skip_volumes /\ DictGet(manifest, "format", "none") = "full"

\* faulty variant: docker compose down is started and not waited for
AfterStopIssued_NoWait == "imp_volume"

\* subprocess.run returns when docker compose down has ended
AfterStopIssued == "imp_stopping"

\* volumes_dir.glob("*.tar.gz"), empty when volumes/ does not exist
VolumeBackups(dir) ==
    IF dir.volumes = <<>> THEN <<>>
    ELSE SetToSeq({f \in DOMAIN dir.volumes[1] :
                      Len(f) >= 2 /\ SubSeq(f, Len(f) - 1, Len(f)) = <<".tar", ".gz">>})

\* the volumes are restored, after docker compose down, or the step is skipped
ImportDecide ==
    /\ pc = "imp_decide"
    /\ \/ /\ RestoresVolumes(cmd.skip_volumes, loc.manifest)
          /\ calls' = Append(calls, <<"compose_down", <<>>, "issued">>)
          /\ Emit(<<"restoring_volumes", <<>>>>)
          /\ loc' = [loc EXCEPT !.todo = VolumeBackups(RestoreDir)]
          /\ pc' = AfterStopIssued
       \/ /\ ~RestoresVolumes(cmd.skip_volumes, loc.manifest)
          /\ pc' = "imp_cleanup"
          /\ UNCHANGED <<calls, out, loc>>
    /\ UNCHANGED <<cmd, ret, exitCode, runs, fsVars, hostVars, peer, restored>>

\* the exit status of docker compose down is not looked at
AfterStop(outcome, todo) == IF todo = <<>> THEN "imp_cleanup" ELSE "imp_volume"

\* docker compose down ends: the containers are stopped, or it failed
ImportStopReturns ==
    /\ pc = "imp_stopping"
    /\ \E outcome \in Allowed(ExitOutcomes) :
          /\ servicesUp' = IF outcome = "ok" THEN FALSE ELSE servicesUp
          /\ calls' = Append(calls, <<"compose_down", <<>>, outcome>>)
          /\ pc' = AfterStop(outcome, loc.todo)
    /\ UNCHANGED <<cmd, loc, ret, exitCode, out, runs, fsVars, volumes, peer, restored>>

\* the result of import_docker_volume for an outcome of the helper
ImportVolumeResult(outcome) ==
    IF outcome = "ok" THEN "True"
    ELSE IF outcome = "nonzero" THEN "False"
    ELSE "raised"

\* faulty variant: the loop ends at the first volume that fails
AfterImportVolume_Abort(result, rest) ==
    IF result = "raised" THEN "crashed"
    ELSE IF rest = <<>> \/ result = "False" THEN "imp_cleanup"
    ELSE "imp_volume"

\* where the for loop of import_environment goes after one volume
AfterImportVolume(result, rest) ==
    IF result = "raised" THEN "crashed"
    ELSE IF rest = <<>> THEN "imp_cleanup"
    ELSE "imp_volume"

\* faulty variant: the volume is emptied before the archive is extracted
Extracted_Replace(content, data, files) == [f \in files |-> data[f]]

\* tar xzf into the volume: the files of the archive are written over it
Extracted(content, data, files) ==
    DictUpdate(content, [f \in files |-> data[f]])

\* one pass of the loop: import_docker_volume(volume_name, volume_backup)
ImportVolume ==
    /\ pc = "imp_volume"
    /\ loc.todo # <<>>
    /\ LET file        == Head(loc.todo)
           volume_name == ImportVolumeName(file)
           tar         == RestoreDir.volumes[1][file]
           content     == DictGet(volumes, volume_name, <<>>)
       IN \E outcome \in (IF tar.intact THEN Allowed(HelperOutcomes)
                           ELSE HelperOutcomes \ {"ok"}) :
          LET result == ImportVolumeResult(outcome)
              next   == AfterImportVolume(result, Tail(loc.todo))
          IN
          /\ \E files \in (IF outcome = "ok" THEN {DOMAIN tar.data}
                           ELSE IF outcome = "nolaunch" THEN {{}}
                           ELSE SUBSET DOMAIN tar.data) :
                \* docker volume create, then the helper
                volumes' = IF outcome = "nolaunch" THEN volumes
                           ELSE Put(volumes, volume_name, Extracted(content, tar.data, files))
          /\ calls' = calls \o
                (IF outcome = "nolaunch"
                 THEN << <<"docker_volume_create", volume_name, "raised">> >>
                 ELSE << <<"docker_volume_create", volume_name, "ok">>,
                         <<"docker_run_import", file, outcome>> >>)
          /\ out' = out \o <<<<"importing_volume", volume_name>>>> \o
                       (IF result = "True" THEN <<<<"imported", file>>>>
                        ELSE IF result = "False" THEN <<<<"failed_to_import", <<>>>>>>
                        ELSE <<<<"traceback", <<>>>>>>)
          /\ pc' = next
          /\ loc' = [loc EXCEPT !.todo = IF next = "crashed" THEN loc.todo ELSE Tail(loc.todo)]
          /\ ret' = IF next = "crashed" THEN "raised" ELSE ret
          /\ exitCode' = IF next = "crashed" THEN MainExit("import", "raised") ELSE exitCode
    /\ UNCHANGED <<cmd, runs, fsVars, servicesUp, peer, restored>>

\* faulty variant: the services are started again at the end of the import
ImportCleanup_Restart ==
    /\ pc = "imp_cleanup"
    /\ restoreTemp' = <<>>
    /\ calls' = Append(calls, <<"rm_rf", <<"restore_temp">>, "ok">>)
    /\ Emit(<<"import_complete", <<>>>>)
    /\ Return("True")
    /\ servicesUp' = TRUE
    /\ UNCHANGED <<cmd, loc, runs, archives, sidecars, exportDirs, cwd, origin, volumes, peer, restored>>

\* rm -rf restore_temp, the next steps are printed, return True
ImportCleanup ==
    /\ pc = "imp_cleanup"
    /\ restoreTemp' = <<>>
    /\ calls' = Append(calls, <<"rm_rf", <<"restore_temp">>, "ok">>)
    /\ Emit(<<"import_complete", <<>>>>)
    /\ Return("True")
    /\ UNCHANGED <<cmd, loc, runs, archives, sidecars, exportDirs, cwd, origin, hostVars, peer, restored>>

----------------------------------------------------------------------------
(* The host between two commands *)

\* the process has ended; the shell is back at its prompt
Reap ==
    /\ pc \in {"done", "crashed"}
    /\ pc' = "idle"
    /\ cmd' = NoCmd
    /\ loc' = NoLoc
    /\ ret' = "none"
    /\ exitCode' = "none"
    /\ out' = <<>>
    /\ calls' = <<>>
    /\ UNCHANGED <<runs, fsVars, hostVars, peer, restored>>

\* bytes of an archive are changed after it was written: a bit of the
\* gzip header flips (the content still reads the same), or the file no
\* longer reads as a tar archive
Tamper ==
    /\ pc = "idle"
    /\ runs < MaxRuns
    /\ \E name \in DOMAIN archives :
          /\ origin[name] = "export"
          /\ \/ archives' = [archives EXCEPT ![name].pad = 1]
             \/ archives' = [archives EXCEPT ![name].readable = FALSE]
          /\ origin' = [origin EXCEPT ![name] = "export_altered"]
    /\ UNCHANGED <<procVars, sidecars, exportDirs, restoreTemp, cwd, hostVars, peer, restored>>

\* the operator starts the services again (python start_services.py)
StartServices ==
    /\ pc = "idle"
    /\ runs < MaxRuns
    /\ ~servicesUp
    /\ servicesUp' = TRUE
    /\ UNCHANGED <<procVars, fsVars, volumes, peer, restored>>

----------------------------------------------------------------------------

Next ==
    \/ ExportStart
    \/ ExportMetadata
    \/ ExportConfigs
    \/ ExportVolumesBegin
    \/ ExportVolume
    \/ ExportPack
    \/ ExportChecksum
    \/ ExportCleanup
    \/ ImportStart
    \/ ImportVerify
    \/ ImportExtract
    \/ ImportFind
    \/ ImportManifest
    \/ ImportConfigs
    \/ ImportDecide
    \/ ImportStopReturns
    \/ ImportVolume
    \/ ImportCleanup
    \/ Reap
    \/ Tamper
    \/ StartServices

Spec == Init /\ [][Next]_vars

----------------------------------------------------------------------------
(* The command is interrupted from outside *)

\* the command is between its first and its last statement
InFlight == pc \notin {"idle", "done", "crashed"}

\* SIGINT while the command runs: KeyboardInterrupt is raised at the
\* statement that runs and leaves main(); no handler, no try/finally and no
\* context manager of export_environment / import_environment catches it
Cancel ==
    /\ InFlight
    /\ pc' = "crashed"
    /\ ret' = "cancelled"
    /\ exitCode' = "sigint"
    /\ Emit(<<"traceback", <<"KeyboardInterrupt">>>>)
    /\ UNCHANGED <<cmd, loc, calls, runs, fsVars, hostVars, peer, restored>>

NextCancel ==
    \/ ExportStart
    \/ ExportMetadata
    \/ ExportConfigs
    \/ ExportVolumesBegin
    \/ ExportVolume
    \/ ExportPack
    \/ ExportChecksum
    \/ ExportCleanup
    \/ ImportStart
    \/ ImportVerify
    \/ ImportExtract
    \/ ImportFind
    \/ ImportManifest
    \/ ImportConfigs
    \/ ImportDecide
    \/ ImportStopReturns
    \/ ImportVolume
    \/ ImportCleanup
    \/ Reap
    \/ Tamper
    \/ StartServices
    \/ Cancel

SpecCancel == Init /\ [][NextCancel]_vars

----------------------------------------------------------------------------
(* A second export runs at the same time on the same backups/ directory.  *)
(* It is followed through the steps that make, write and remove its       *)
(* scratch directory.                                                     *)

\* what the clock of the second process may give: the same second, or the next
PeerTimestamps == Timestamps \cup {"20250101_120001"}

\* the --format of the second process
PeerFormats == {"config"}

\* the second process names its scratch directory and makes it (exist_ok)
PeerExportStart ==
    /\ peer = <<>>
    /\ cmd.command = "export"
    /\ InFlight
    /\ \E output \in OutputNames, format \in PeerFormats, ts \in PeerTimestamps :
          LET output_name == BackupName(output, ts) IN
          /\ peer' = <<[output_name |-> output_name, format |-> format,
                        pc |-> "exp_metadata"]>>
          /\ exportDirs' = IF output_name \in DOMAIN exportDirs
                           THEN exportDirs
                           ELSE Put(exportDirs, output_name, EmptyDir)
    /\ UNCHANGED <<procVars, archives, sidecars, restoreTemp, cwd, origin, hostVars, restored>>

\* the second process writes its manifest.json; open() raises when the
\* directory is not there any more, and the process ends
PeerExportMetadata ==
    /\ peer # <<>>
    /\ peer[1].pc = "exp_metadata"
    /\ LET output_name == peer[1].output_name IN
       IF output_name \in DOMAIN exportDirs
       THEN \E ts \in Timestamps :
               LET metadata == WithBootstrapMeta(
                                   BaseMetadata(peer[1].format, ts,
                                                GetRunningContainers("ok"),
                                                GetDockerVolumes("ok")))
               IN  /\ exportDirs' = Put(exportDirs, output_name,
                                        [exportDirs[output_name]
                                            EXCEPT !.manifest = <<JsonDump(metadata)>>])
                   /\ peer' = <<[peer[1] EXCEPT !.pc = "exp_cleanup"]>>
       ELSE /\ peer' = <<>>
            /\ UNCHANGED exportDirs
    /\ UNCHANGED <<procVars, archives, sidecars, restoreTemp, cwd, origin, hostVars, restored>>

\* the second process removes its scratch directory and ends
PeerExportCleanup ==
    /\ peer # <<>>
    /\ peer[1].pc = "exp_cleanup"
    /\ exportDirs' = Drop(exportDirs, peer[1].output_name)
    /\ peer' = <<>>
    /\ UNCHANGED <<procVars, archives, sidecars, restoreTemp, cwd, origin, hostVars, restored>>

\* the scratch directory was removed under the running export: the next
\* open() / mkdir() / tar.add() raises FileNotFoundError, which leaves
\* main(); tarfile.open has made an empty archive file by then
ExportScratchGone ==
    /\ cmd.command = "export"
    /\ InFlight
    /\ loc.output_name \notin DOMAIN exportDirs
    /\ \/ /\ \/ pc \in {"exp_metadata", "exp_configs"}
             \/ pc = "exp_volumes" /\ ExportsVolumes(cmd.format)
          /\ UNCHANGED <<archives, origin>>
       \/ /\ pc = "exp_pack"
          /\ archives' = Put(archives, loc.output_name,
                             [tree |-> <<>>, pad |-> 0, readable |-> FALSE])
          /\ origin' = Put(origin, loc.output_name, "export_failed")
    /\ Emit(<<"traceback", <<"FileNotFoundError">>>>)
    /\ Crash
    /\ UNCHANGED <<cmd, loc, calls, runs, sidecars, exportDirs, restoreTemp, cwd,
                   hostVars, peer, restored>>

NextConcurrent ==
    \/ ExportStart
    \/ ExportMetadata
    \/ ExportConfigs
    \/ ExportVolumesBegin
    \/ ExportVolume
    \/ ExportPack
    \/ ExportChecksum
    \/ ExportCleanup
    \/ ImportStart
    \/ ImportVerify
    \/ ImportExtract
    \/ ImportFind
    \/ ImportManifest
    \/ ImportConfigs
    \/ ImportDecide
    \/ ImportStopReturns
    \/ ImportVolume
    \/ ImportCleanup
    \/ Reap
    \/ Tamper
    \/ StartServices
    \/ PeerExportStart
    \/ PeerExportMetadata
    \/ PeerExportCleanup
    \/ ExportScratchGone

SpecConcurrent == Init /\ [][NextConcurrent]_vars

----------------------------------------------------------------------------
(* The user changes the working directory between two commands *)

\* the config files the user may remove
RemovableConfigs == {".bootstrap_metadata.json", SearxngSettings}

\* a config file is removed from the working directory
RemoveConfig ==
    /\ pc = "idle"
    /\ runs < MaxRuns
    /\ \E f \in RemovableConfigs \cap DOMAIN cwd : cwd' = Drop(cwd, f)
    /\ UNCHANGED <<procVars, archives, sidecars, exportDirs, restoreTemp, origin,
                   hostVars, peer, restored>>

NextEdit ==
    \/ ExportStart
    \/ ExportMetadata
    \/ ExportConfigs
    \/ ExportVolumesBegin
    \/ ExportVolume
    \/ ExportPack
    \/ ExportChecksum
    \/ ExportCleanup
    \/ ImportStart
    \/ ImportVerify
    \/ ImportExtract
    \/ ImportFind
    \/ ImportManifest
    \/ ImportConfigs
    \/ ImportDecide
    \/ ImportStopReturns
    \/ ImportVolume
    \/ ImportCleanup
    \/ Reap
    \/ Tamper
    \/ StartServices
    \/ RemoveConfig

SpecEdit == Init /\ [][NextEdit]_vars

----------------------------------------------------------------------------
(* Vocabulary of the properties *)

Importing == cmd.command = "import"
Exporting == cmd.command = "export"

\* the positions of the calls of one kind
CallsOf(kinds) == {i \in 1..Len(calls) : calls[i][1] \in kinds}

\* the calls that stop services or touch a volume
StopCalls   == CallsOf({"compose_down"})
VolumeCalls == CallsOf({"docker_volume_create", "docker_run_import"})
ConfigCalls == CallsOf({"cp"})

\* docker compose down has ended (with the status outcome)
StopReturned(i) == calls[i][1] = "compose_down" /\ calls[i][3] # "issued"

\* the lines printed of some kinds
Printed(kinds) == {i \in 1..Len(out) : out[i][1] \in kinds}

\* the sidecar beside the backup file does not hold the digest of its bytes
SidecarMismatch ==
    /\ cmd.backup_file \in DOMAIN sidecars
    /\ BackupExists(cmd.backup_file)
    /\ ExpectedChecksum(sidecars[cmd.backup_file]) # Sha256(BackupFile(cmd.backup_file))

\* the volumes whose export (import) was reported as done / as failed:
\* the line after "Exporting volume: <name>" tells which
ReportedAs(start, verdict) ==
    {out[i][2] : i \in {j \in 1..(Len(out) - 1) :
                          out[j][1] = start /\ out[j + 1][1] = verdict}}

\* the arguments of the calls of one kind that ended with one outcome
CalledWith(kind, outcome) ==
    {calls[i][2] : i \in {j \in 1..Len(calls) :
                            calls[j][1] = kind /\ calls[j][3] = outcome}}

----------------------------------------------------------------------------
(* Properties *)

\* C1: an import of an archive whose bytes no longer have the digest of its
\* sidecar ends in "checksum mismatch" and returns False, and has run no
\* command at all: nothing was extracted, no config was copied, no service
\* was stopped and no volume was touched.
C1_TamperedImportStopsAtChecksum ==
    (Importing /\ SidecarMismatch /\ pc # "imp_verify") =>
        /\ pc = "done"
        /\ ret = "False"
        /\ out[Len(out)] = <<"checksum_mismatch", <<>>>>
        /\ calls = <<>>

C1_Witness ==
    /\ Importing /\ pc = "done" /\ SidecarMismatch
    /\ origin[cmd.backup_file] = "export_altered"
    /\ BackupFile(cmd.backup_file).readable
    /\ ret = "False"

\* C2: every call that creates or fills a volume comes after docker compose
\* down has ended, and no volume is being imported while it still runs.
C2_StopEndsBeforeVolumeImport ==
    /\ \A i \in VolumeCalls : \E j \in StopCalls : j < i /\ StopReturned(j)
    /\ (pc = "imp_volume") =>
          /\ StopCalls # {}
          /\ \A j \in StopCalls : calls[j][3] = "issued" =>
                \E k \in StopCalls : k > j /\ StopReturned(k)

C2_Witness ==
    /\ Importing
    /\ \E i \in VolumeCalls : calls[i][1] = "docker_run_import"

\* C3 (as claimed): after docker compose down has failed, no volume is
\* created or imported in that run.
C3_NoImportAfterFailedStop ==
    \A j \in StopCalls : calls[j][3] = "nonzero" =>
        \A i \in VolumeCalls : i < j

\* C4: with --skip-volumes, or with a manifest whose format is not "full",
\* docker compose down is never run and no volume is created or imported;
\* the config files of the backup are what the import has restored.
C4_SkipOrNotFullTouchesNoVolume ==
    (Importing /\ (cmd.skip_volumes \/
                   (pc \in {"imp_configs", "imp_decide", "imp_cleanup", "done"}
                    /\ ret # "False"
                    /\ DictGet(loc.manifest, "format", "none") # "full"))) =>
        /\ StopCalls = {}
        /\ VolumeCalls = {}
        /\ pc \notin {"imp_stopping", "imp_volume"}
        /\ (pc = "imp_cleanup") =>
              \A f \in DOMAIN RestoredConfigs(RestoreDir) :
                 f \in DOMAIN cwd /\ cwd[f] = RestoredConfigs(RestoreDir)[f]

C4_Witness ==
    /\ Importing /\ pc = "imp_cleanup" /\ cmd.skip_volumes
    /\ DictGet(loc.manifest, "format", "none") = "full"
    /\ VolumeBackups(RestoreDir) # <<>>
    /\ ConfigCalls # {}

\* what import_environment prints when a step before the service stop fails
EarlyFailures ==
    {"backup_not_found", "checksum_mismatch", "invalid_backup_structure",
     "manifest_not_found"}

\* the import has failed before the services were to be stopped
FailedBeforeStop ==
    \/ Printed(EarlyFailures) # {}
    \/ \E i \in 1..Len(calls) : calls[i][1] = "tar_extract" /\ calls[i][3] = "raised"

\* C5: an import that fails at a step before the service stop (file not
\* found, checksum mismatch, extraction, no backup directory, no manifest)
\* ends there: it has copied no config, run no docker compose down and
\* touched no volume, and it goes no further.
C5_EarlyFailureHasNoSideEffects ==
    (Importing /\ FailedBeforeStop) =>
        /\ pc \in {"done", "crashed"}
        /\ ret \in {"False", "raised"}
        /\ StopCalls = {}
        /\ VolumeCalls = {}
        /\ ConfigCalls = {}

C5_Witness ==
    /\ Importing /\ pc = "done"
    /\ Printed({"manifest_not_found"}) # {}
    /\ RestoredConfigs(RestoreDir) # <<>>

\* C6: from the moment docker compose down has stopped the services, they
\* stay stopped for the rest of the import, whether or not a volume failed.
C6_ImportNeverRestarts ==
    (Importing /\ <<>> \in CalledWith("compose_down", "ok")) => ~servicesUp

C6_Witness ==
    /\ Importing /\ pc = "done" /\ ret = "True"
    /\ <<>> \in CalledWith("compose_down", "ok")
    /\ CalledWith("docker_run_import", "nonzero") # {}
    /\ ~servicesUp

\* the position of the last call of one kind
LastCall(kind) ==
    CHOOSE i \in CallsOf({kind}) : \A j \in CallsOf({kind}) : j <= i

\* the volumes docker lists for the project
ProjectVolumes == {v \in DOMAIN volumes : InProject(v)}

\* the directory of the backup inside the archive export has written
ArchivedDir == archives[loc.output_name].tree[loc.output_name]

C9_HelperTimeoutIsPerVolume ==
    (\E i \in CallsOf({"docker_run_export", "docker_run_import", "docker_volume_create"}) :
        calls[i][3] \in {"timeout", "nolaunch", "raised"})
      => pc # "crashed"

\* a fatal error was reported, or an exception left main()
FatalError ==
    \/ Printed({"checksum_mismatch", "invalid_backup_structure",
                "manifest_not_found", "traceback"}) # {}

\* a volume that was to be exported or imported failed
VolumeFailed ==
    \E i \in CallsOf({"docker_run_export", "docker_run_import", "docker_volume_create"}) :
        calls[i][3] # "ok"

\* C10 (as claimed): the process ends with a status other than 0 exactly
\* when a fatal error occurred or a volume failed.
C10_ExitStatusTellsFailure ==
    (pc \in {"done", "crashed"}) =>
        ((exitCode # 0) <=> (FatalError \/ VolumeFailed))

\* the command has ended: by a return to main(), or by an exception
Ended == pc \in {"done", "crashed"}

\* the steps of import_environment after the backup directory was chosen
AfterFind ==
    {"imp_manifest", "imp_configs", "imp_decide", "imp_stopping", "imp_volume",
     "imp_cleanup"}

\* the archive of this import was extracted
ExtractedArchive == cmd.backup_file \in CalledWith("tar_extract", "ok")

\* C11 (as claimed): when a call of import_environment has ended, by any
\* return or by an exception, backups/restore_temp does not exist.
C11_ImportRemovesScratch ==
    (Importing /\ Ended) => restoreTemp = <<>>

\* C12 (as claimed): when a call of export_environment has ended, by its
\* return or by an exception after backups/<name> was made, the scratch
\* directory backups/<name> does not exist.
C12_ExportRemovesScratch ==
    (Exporting /\ Ended) => loc.output_name \notin DOMAIN exportDirs

\* C13 (as claimed): restore_temp does not exist when the extraction starts,
\* and the backup directory the import reads is a directory of the archive
\* of this call, with the content it has in that archive.
C13_ImportExtractsIntoFreshScratch ==
    /\ (Importing /\ pc = "imp_extract") => restoreTemp = <<>>
    /\ (Importing /\ pc \in AfterFind) =>
          /\ loc.restore_dir \in DOMAIN BackupFile(cmd.backup_file).tree
          /\ RestoreDir = BackupFile(cmd.backup_file).tree[loc.restore_dir]

\* C14 (as claimed): an import whose archive has no top-level directory, or
\* more than one, ends with "invalid backup structure" and returns False
\* without having restored a config or touched a volume.
C14_OneBackupRootRequired ==
    (Importing /\ ExtractedArchive /\ pc # "imp_find"
       /\ Cardinality(DOMAIN BackupFile(cmd.backup_file).tree) # 1) =>
        /\ pc = "done"
        /\ ret = "False"
        /\ out[Len(out)] = <<"invalid_backup_structure", <<>>>>
        /\ ConfigCalls = {}
        /\ VolumeCalls = {}

ArchivedManifest == JsonLoad(ArchivedDir.manifest[1])

\* C16 (as claimed): the manifest of an archive export has written lists
\* volumes only if its format is "full", and an archive of another format
\* has no volumes/ directory.
C16_VolumeListOnlyInFullManifest ==
    (Exporting /\ pc = "done"
       /\ DictGet(ArchivedManifest, "format", "none") # "full") =>
        /\ DictGet(ArchivedManifest, "volumes", <<>>) = <<>>
        /\ ArchivedDir.volumes = <<>>

\* C17: when export_environment has returned, the first token of the sidecar
\* is the SHA-256 digest of the archive; and an import of an archive that is
\* still as export wrote it passes the verification.
C17_SidecarRoundTrip ==
    /\ (Exporting /\ pc = "done") =>
          /\ loc.output_name \in DOMAIN sidecars
          /\ ExpectedChecksum(sidecars[loc.output_name])
                = Sha256(archives[loc.output_name])
    /\ (Importing /\ pc # "imp_verify"
          /\ cmd.backup_file \in DOMAIN origin
          /\ origin[cmd.backup_file] = "export") =>
          /\ Printed({"checksum_mismatch"}) = {}
          /\ Printed({"checksum_verified"}) # {}

C17_Witness ==
    /\ Importing /\ pc = "imp_extract"
    /\ cmd.backup_file \in DOMAIN origin
    /\ origin[cmd.backup_file] = "export"
    /\ ~SidecarMismatch
    /\ Printed({"checksum_verified"}) # {}

\* C18 (as claimed): the archive of an export holds no <volume>.tar.gz for a
\* volume whose helper failed, and every file of its volumes/ directory is
\* a whole archive of its volume.
C18_FailedVolumeNotArchived ==
    (Exporting /\ pc = "done" /\ ArchivedDir.volumes # <<>>) =>
        /\ \A v \in CalledWith("docker_run_export", "nonzero") :
              VolumeArchiveName(v) \notin DOMAIN ArchivedDir.volumes[1]
        /\ \A f \in DOMAIN ArchivedDir.volumes[1] :
              ArchivedDir.volumes[1][f].intact

\* C19 (as claimed): while two exports run on the same backups/ directory
\* their scratch directories have different names, and the scratch
\* directory of this export is there for every step that writes or packs it.
C19_ConcurrentExportsUseDistinctScratch ==
    /\ (Exporting /\ InFlight /\ peer # <<>>) =>
          peer[1].output_name # loc.output_name
    /\ (Exporting /\ pc \in {"exp_metadata", "exp_configs", "exp_pack"}) =>
          loc.output_name \in DOMAIN exportDirs

\* C20 (as claimed): a command that was interrupted has removed its scratch
\* directory by the time the interruption has left main().
C20_CancelledRunRemovesScratch ==
    (pc = "crashed" /\ ret = "cancelled") =>
        /\ Exporting => loc.output_name \notin DOMAIN exportDirs
        /\ Importing => restoreTemp = <<>>

\* the import has copied the config files of the backup
ConfigsRestored == Printed({"configs_restored"}) # {}

\* C21 (as claimed): an import of a backup file that was imported before,
\* with the same bytes, leaves every config file the first import has
\* restored with the content the first import gave it.
C21_SecondImportRestoresSameConfigs ==
    (Importing /\ ConfigsRestored
       /\ cmd.backup_file \in DOMAIN restored
       /\ restored[cmd.backup_file].bytes = BackupFile(cmd.backup_file)) =>
        \A f \in DOMAIN restored[cmd.backup_file].configs :
            f \in DOMAIN cwd /\ cwd[f] = restored[cmd.backup_file].configs[f]

\* the archive of the volume the loop of import_environment is at
VolumeBackup == RestoreDir.volumes[1][Head(loc.todo)]

\* C22: a step of import_docker_volume removes no volume, and it leaves
\* every file that is in a volume there; a file that is not in the archive
\* keeps its content. This holds for the imports that fail as well.
C22_ImportKeepsVolumeContents ==
    [][(pc = "imp_volume") =>
          \A v \in DOMAIN volumes :
             /\ v \in DOMAIN volumes'
             /\ \A f \in DOMAIN volumes[v] :
                   /\ f \in DOMAIN volumes'[v]
                   /\ (v # ImportVolumeName(Head(loc.todo))
                         \/ f \notin DOMAIN VolumeBackup.data)
                        => volumes'[v][f] = volumes[v][f]]_vars

C22_Witness ==
    /\ Importing
    /\ <<"localai_db", ".tar", ".gz">> \in CalledWith("docker_run_import", "ok")
    /\ <<"localai_db">> \in DOMAIN volumes
    /\ volumes[<<"localai_db">>] = [f \in {"a", "b"} |-> IF f = "a" THEN 3 ELSE 1]

\* the metadata dict of this export as it was before the external metadata
\* was merged into it (the timestamp left aside)
DefaultMetadata ==
    BaseMetadata(cmd.format, "now", GetRunningContainers(calls[1][3]),
                 GetDockerVolumes(calls[2][3]))

\* C23: with .bootstrap_metadata.json present, the metadata of the export
\* has the keys of the defaults and those of the external metadata; every
\* key of the external metadata has the external value, and every other key
\* has its default value.
C23_ExternalMetadataOverrides ==
    (Exporting /\ loc.metadata # <<>> /\ ".bootstrap_metadata.json" \in DOMAIN cwd) =>
        LET m   == loc.metadata[1]
            ext == BootstrapMeta(cwd[".bootstrap_metadata.json"])
        IN  /\ DOMAIN m = (DOMAIN DefaultMetadata) \cup (DOMAIN ext)
            /\ \A k \in DOMAIN ext : m[k] = ext[k]
            /\ \A k \in (DOMAIN DefaultMetadata) \ (DOMAIN ext) :
                  IF k = "timestamp" THEN m[k] \in Timestamps
                  ELSE m[k] = DefaultMetadata[k]

C23_Witness ==
    /\ Exporting /\ pc = "done" /\ cmd.format = "full"
    /\ ".bootstrap_metadata.json" \in DOMAIN cwd
    /\ cwd[".bootstrap_metadata.json"] = 2
    /\ loc.metadata[1]["format"] = "config"
    /\ loc.metadata[1]["version"] = "1.0"
    /\ loc.metadata[1]["volumes"] # <<>>

\* C24: the manifest.json that export has written (in the scratch directory
\* and in the archive) loads as the metadata dict export had, key by key;
\* and the manifest an import has loaded has every member of the
\* manifest.json it read, with its value.
C24_ManifestRoundTrip ==
    /\ (Exporting /\ loc.metadata # <<>> /\ pc \in {"exp_configs", "exp_volumes"}) =>
          JsonLoad(exportDirs[loc.output_name].manifest[1]) = loc.metadata[1]
    /\ (Exporting /\ pc = "done") =>
          JsonLoad(ArchivedDir.manifest[1]) = loc.metadata[1]
    /\ (Importing /\ pc \in (AfterFind \ {"imp_manifest"})) =>
          LET text == RestoreDir.manifest[1] IN
          \A i \in 1..Len(text) :
             /\ text[i][1] \in DOMAIN loc.manifest
             /\ loc.manifest[text[i][1]] = text[i][2][2]

C24_Witness ==
    /\ Importing /\ pc = "imp_configs"
    /\ cmd.backup_file \in DOMAIN origin
    /\ origin[cmd.backup_file] = "export"
    /\ "hardware_profile" \in DOMAIN loc.manifest
    /\ loc.manifest["volumes"] # <<>>

\* the only commands of this run that did not end with status 0 are
\* docker ps and docker volume ls
OnlyListingsFailed ==
    \A i \in 1..Len(calls) :
        calls[i][3] \notin {"ok", "issued"} =>
            calls[i][1] \in {"docker_ps", "docker_volume_ls"} /\ calls[i][3] = "nonzero"

\* C25: when docker ps (docker volume ls) ends with a non-zero status during
\* an export, the list of containers (of volumes) of the manifest is empty,
\* no volume is exported after a failed second listing, and an export in
\* which nothing else failed returns with the archive and its checksum
\* written.
C25_ListingFailureIsNotFatal ==
    /\ (Exporting /\ loc.metadata # <<>>) =>
          /\ (calls[1][3] = "nonzero") => loc.metadata[1]["containers"] = <<>>
          /\ (calls[2][3] = "nonzero") => loc.metadata[1]["volumes"] = <<>>
    /\ (Exporting /\ Len(calls) >= 3 /\ calls[Len(calls)][1] = "docker_volume_ls"
          /\ calls[Len(calls)][3] = "nonzero") => pc = "exp_pack"
    /\ (Exporting /\ Ended /\ OnlyListingsFailed) =>
          /\ pc = "done"
          /\ ret = "archive_path"
          /\ loc.output_name \in DOMAIN archives
          /\ archives[loc.output_name].readable
          /\ loc.output_name \in DOMAIN sidecars
          /\ ExpectedChecksum(sidecars[loc.output_name])
                = Sha256(archives[loc.output_name])

C25_Witness ==
    /\ Exporting /\ pc = "done" /\ cmd.format = "full"
    /\ calls[2] = <<"docker_volume_ls", <<>>, "nonzero">>
    /\ loc.metadata[1]["volumes"] = <<>>
    /\ CalledWith("docker_run_export", "ok") # {}

\* the steps of export_environment between the config files and the tarball
AfterConfigs == {"exp_volumes", "exp_volume", "exp_pack"}

\* C26 (as claimed): once the config files are copied, configs/ in the
\* scratch directory holds exactly the listed files that exist in the
\* working directory, each with its content, and so does the archive.
C26_ConfigsAreThePresentFiles ==
    /\ (Exporting /\ pc \in AfterConfigs /\ loc.output_name \in DOMAIN exportDirs) =>
          exportDirs[loc.output_name].configs[1].files = CopiedConfigs
    /\ (Exporting /\ pc = "done") =>
          ArchivedDir.configs[1].files = CopiedConfigs

\* the step of import_environment a printed line or a command belongs to:
\* 1 verifying, 2 extracting, 3 reading the manifest, 4 restoring the
\* configs, 5 stopping the services, 6 importing the volumes, 7 done
ImportStep(kind) ==
    CASE kind \in {"verifying_checksum", "checksum_verified", "checksum_mismatch"} -> 1
      [] kind \in {"extracting", "tar_extract", "invalid_backup_structure"} -> 2
      [] kind \in {"backup_info", "manifest_not_found"} -> 3
      [] kind \in {"configs_restored", "cp"} -> 4
      [] kind \in {"restoring_volumes", "compose_down"} -> 5
      [] kind \in {"importing_volume", "imported", "failed_to_import",
                   "docker_volume_create", "docker_run_import"} -> 6
      [] kind \in {"import_complete", "rm_rf"} -> 7
      [] OTHER -> 0

\* the lines (or calls) of a sequence that belong to a step come in the
\* order of the steps
InStepOrder(s, Step(_)) ==
    \A i, j \in 1..Len(s) :
        (i < j /\ Step(s[i][1]) # 0 /\ Step(s[j][1]) # 0)
            => Step(s[i][1]) <= Step(s[j][1])

\* C27: what an import prints and the commands it runs come in the order
\* verifying, extracting, reading the manifest, restoring the configs,
\* stopping the services, importing the volumes, done; the archive is
\* extracted only after a sidecar that exists was verified, a volume is
\* imported only after the configs were restored, and the position of the
\* import is never ahead of what it has printed.
C27_ImportStepOrder ==
    Importing =>
        /\ InStepOrder(out, ImportStep)
        /\ InStepOrder(calls, ImportStep)
        /\ (CallsOf({"tar_extract"}) # {} /\ cmd.backup_file \in DOMAIN sidecars)
              => /\ Printed({"checksum_verified"}) # {}
                 /\ Printed({"checksum_mismatch"}) = {}
        /\ (pc \in {"imp_find", "imp_manifest"}) => Printed({"extracting"}) # {}
        /\ (pc \in {"imp_configs", "imp_decide"}) => Printed({"backup_info"}) # {}
        /\ (pc \in {"imp_stopping", "imp_volume"} \/ VolumeCalls # {} \/ StopCalls # {})
              => /\ Printed({"configs_restored"}) # {}
                 /\ Printed({"backup_info"}) # {}
        /\ (Printed({"import_complete"}) # {}) => pc = "done"

C27_Witness ==
    /\ Importing /\ pc = "done" /\ ret = "True"
    /\ Printed({"checksum_verified"}) # {}
    /\ ConfigCalls # {}
    /\ CalledWith("docker_run_import", "ok") # {}
    /\ CalledWith("docker_run_import", "nonzero") # {}

\* the step of export_environment a printed line or a command belongs to:
\* 1 discovering and building the manifest, 2 copying the configs,
\* 3 exporting the volumes, 4 packing, 5 checksumming, 6 done
ExportStep(kind) ==
    CASE kind \in {"metadata_saved", "docker_ps"} -> 1
      [] kind \in {"configs_exported", "cp"} -> 2
      [] kind \in {"exporting_volume", "exported", "failed_to_export",
                   "docker_run_export"} -> 3
      [] kind \in {"creating_archive", "tar_create"} -> 4
      [] kind \in {"calculating_checksum"} -> 5
      [] kind \in {"export_complete", "rm_rf"} -> 6
      [] OTHER -> 0

\* C28: what an export prints and the commands it runs come in the order
\* manifest, configs, volumes, tarball, checksum, done; volumes are exported
\* only with format "full"; the tarball is made when no volume is left to
\* export; the checksum is the one of the archive as it was written; and a
\* run that an exception has ended has printed and run nothing after it.
C28_ExportStepOrder ==
    Exporting =>
        /\ InStepOrder(out, ExportStep)
        /\ InStepOrder(calls, ExportStep)
        /\ (CallsOf({"docker_run_export"}) # {}) => cmd.format = "full"
        /\ (pc \in {"exp_configs", "exp_volumes", "exp_volume", "exp_pack"})
              => /\ Printed({"metadata_saved"}) # {}
                 /\ CallsOf({"tar_create"}) = {}
        /\ (pc \in {"exp_volumes", "exp_volume", "exp_pack"})
              => Printed({"configs_exported"}) # {}
        /\ (CallsOf({"tar_create"}) # {}) => loc.todo = <<>>
        /\ (pc \in {"exp_cleanup", "done"})
              => /\ <<"tar_create", loc.output_name, "ok">> = calls[LastCall("tar_create")]
                 /\ archives[loc.output_name].readable
                 /\ ExpectedChecksum(sidecars[loc.output_name])
                       = Sha256(archives[loc.output_name])
        /\ (pc = "crashed")
              => /\ out[Len(out)][1] = "traceback"
                 /\ calls[Len(calls)][3] \notin {"ok", "issued"}
                 /\ Printed({"export_complete"}) = {}

C28_Witness ==
    /\ Exporting /\ pc = "done" /\ cmd.format = "full"
    /\ Cardinality(CalledWith("docker_run_export", "ok")) = 2
    /\ ConfigCalls # {}

C28_WitnessFailed ==
    /\ Exporting /\ pc = "crashed"
    /\ <<"tar_create", loc.output_name, "raised">> = calls[Len(calls)]

\* the volumes handed to the helper in this export
VolumesTried == {calls[i][2] : i \in CallsOf({"docker_run_export"})}

\* C29 (as claimed): the archive of an export has one top-level directory,
\* named after the backup; it has a volumes/ directory exactly when the
\* format is "full", holding an archive for every volume exported in this
\* run and for no other volume; and an export of another format has not run
\* the volume helper.
C29_ArchiveLayout ==
    (Exporting /\ pc = "done") =>
        /\ DOMAIN archives[loc.output_name].tree = {loc.output_name}
        /\ (ArchivedDir.volumes # <<>>) <=> (cmd.format = "full")
        /\ (ArchivedDir.volumes # <<>>) =>
              /\ \A v \in CalledWith("docker_run_export", "ok") :
                    VolumeArchiveName(v) \in DOMAIN ArchivedDir.volumes[1]
              /\ \A f \in DOMAIN ArchivedDir.volumes[1] :
                    \E v \in VolumesTried : f = VolumeArchiveName(v)
        /\ (cmd.format # "full") => VolumesTried = {}

\* C30 (as claimed): every <v>.tar.gz handed to the import helper is
\* extracted into the volume named v.
C30_VolumeNameRoundTrip ==
    \A i \in CallsOf({"docker_run_import"}) :
        /\ calls[i - 1][1] = "docker_volume_create"
        /\ VolumeArchiveName(calls[i - 1][2]) = calls[i][2]

\* the steps of import_environment after the config files were restored,
\* while the extracted backup is still there
AfterRestore == {"imp_decide", "imp_stopping", "imp_volume", "imp_cleanup"}

\* C31 (as claimed): once an import has restored the config files, every
\* file of configs/ in the backup, the flat ones and the one of
\* configs/searxng/, is in the working directory at its relative path with
\* the content it has in the backup.
C31_ConfigPathsRoundTrip ==
    (Importing /\ pc \in AfterRestore /\ RestoreDir.configs # <<>>) =>
        LET configs == RestoreDir.configs[1] IN
        /\ \A f \in DOMAIN configs.files :
              f \in DOMAIN cwd /\ cwd[f] = configs.files[f]
        /\ (configs.searxng # <<>>) =>
              /\ SearxngSettings \in DOMAIN cwd
              /\ cwd[SearxngSettings] = configs.searxng[1]["settings.yml"]

----------------------------------------------------------------------------
(* The docker volumes of the host change while an export runs: between the *)
(* get_docker_volumes() call for the manifest and the one for the loop     *)

\* a volume somebody creates on the host
NewVolumeNames == {<<"localai_new">>}

\* docker volume rm, by somebody else
VolumeRemoved ==
    /\ cmd.command = "export"
    /\ pc \in {"exp_configs", "exp_volumes"}
    /\ \E v \in DOMAIN volumes : volumes' = Drop(volumes, v)
    /\ UNCHANGED <<procVars, fsVars, servicesUp, peer, restored>>

\* docker volume create, by somebody else
VolumeCreated ==
    /\ cmd.command = "export"
    /\ pc \in {"exp_configs", "exp_volumes"}
    /\ \E v \in NewVolumeNames \ DOMAIN volumes :
          volumes' = Put(volumes, v, [f \in {"a"} |-> 1])
    /\ UNCHANGED <<procVars, fsVars, servicesUp, peer, restored>>

NextHost ==
    \/ ExportStart
    \/ ExportMetadata
    \/ ExportConfigs
    \/ ExportVolumesBegin
    \/ ExportVolume
    \/ ExportPack
    \/ ExportChecksum
    \/ ExportCleanup
    \/ ImportStart
    \/ ImportVerify
    \/ ImportExtract
    \/ ImportFind
    \/ ImportManifest
    \/ ImportConfigs
    \/ ImportDecide
    \/ ImportStopReturns
    \/ ImportVolume
    \/ ImportCleanup
    \/ Reap
    \/ Tamper
    \/ StartServices
    \/ VolumeRemoved
    \/ VolumeCreated

SpecHost == Init /\ [][NextHost]_vars

\* C32 (as claimed): the volume list in the manifest of a finished export
\* of format "full", both of whose volume listings succeeded, is the set of
\* the volumes handed to the helper in that export.
C32_ManifestListsTheVolumesTried ==
    (/\ Exporting /\ pc = "done" /\ cmd.format = "full"
     /\ \A i \in CallsOf({"docker_volume_ls"}) : calls[i][3] = "ok") =>
        Range(DictGet(ArchivedManifest, "volumes", <<>>)) = VolumesTried

\* C33 (as claimed): the format member of the manifest in the archive of a
\* finished export is the format the export was run with.
C33_ManifestFormatIsTheArgument ==
    (Exporting /\ pc = "done") =>
        DictGet(ArchivedManifest, "format", "none") = cmd.format

\* the scratch directory an export builds from nothing, for the metadata it
\* has collected and the volume archives its helper calls have left
BuiltByThisRun ==
    [manifest |-> <<JsonDump(loc.metadata[1])>>,
     configs  |-> <<[files |-> CopiedConfigs, searxng |-> CopiedSearxng]>>,
     volumes  |-> IF cmd.format = "full"
                  THEN <<[f \in {VolumeArchiveName(v) : v \in VolumesTried}
                             \cap DOMAIN ArchivedDir.volumes[1] |->
                                ArchivedDir.volumes[1][f]]>>
                  ELSE <<>>]

\* C34 (as claimed): the archive of a finished export holds the manifest,
\* the config files and the volume archives of that export, and nothing
\* else.
C34_ArchiveHoldsOnlyThisRun ==
    (Exporting /\ pc = "done") => ArchivedDir = BuiltByThisRun

----------------------------------------------------------------------------
(* The helper scripts of the repository, each run once from the shell:     *)
(* scripts/gitea_setup.py, scripts/infisical_sync.py,                      *)
(* scripts/encrypt_secrets.py and bootstrap.py. They use the process       *)
(* variables (pc, cmd, loc, ret, exitCode, out, calls) and the files of    *)
(* the working directory (cwd); backups/ and docker are not touched.       *)

\* max_retries of wait_for_gitea / wait_for_infisical (30 by default)
MaxRetries == 3

\* the working directory a script may start in: with or without .env,
\* .sops.yaml and .bootstrap_metadata.json
ScriptCwds ==
    { <<>>,
      [f \in {".env"} |-> 1],
      [f \in {".env", ".sops.yaml"} |-> 1],
      [f \in {".env", ".sops.yaml", ".env.enc"} |-> 1],
      [f \in {".env", ".bootstrap_metadata.json"} |-> 1] }

InitScripts ==
    /\ pc = "idle"
    /\ cmd = NoCmd
    /\ loc = NoLoc
    /\ ret = "none"
    /\ exitCode = "none"
    /\ out = <<>>
    /\ calls = <<>>
    /\ runs = 0
    /\ archives = <<>>
    /\ sidecars = <<>>
    /\ exportDirs = <<>>
    /\ restoreTemp = <<>>
    /\ cwd \in ScriptCwds
    /\ volumes \in InitVolumes
    /\ servicesUp = TRUE
    /\ origin = <<>>
    /\ peer = <<>>
    /\ restored = <<>>

\* sys.exit(status), or main() returns (status 0)
Exit(status) ==
    /\ pc' = "done"
    /\ exitCode' = status

\* a step of a script's main() has returned: its line is printed; main()
\* goes on when the step returned True and calls sys.exit(1) otherwise
StepDone(line, ok, next) ==
    /\ out' = Append(out, <<line, <<IF ok THEN "ok" ELSE "failed">>>>)
    /\ IF ok THEN pc' = next /\ exitCode' = exitCode ELSE Exit(1)

\* what a readiness probe may be answered with: status 200 with a JSON
\* object, with a body that is not JSON, with JSON that is not an object;
\* another status; no answer (requests.RequestException)
ProbeAnswers == {"200_object", "200_not_json", "200_not_object", "503", "refused"}

\* the service a script waits for and its readiness URL
ProbeUrl(command) ==
    IF command = "gitea_setup" THEN <<"localhost:9000", "/api/v1/version">>
    ELSE <<"localhost:9001", "/api/status">>

\* what one pass of the loop of wait_for_gitea does with an answer: the set
\* of "True" (return True), "retry" (sleep, next pass) and "raised".
\* response.json() of a body that is not JSON raises an error that is a
\* RequestException in some versions of requests and a plain ValueError in
\* others; .get of a value that is no dict raises AttributeError.
GiteaProbeResults(answer) ==
    IF answer = "200_object" THEN {"True"}
    ELSE IF answer = "200_not_json" THEN {"retry", "raised"}
    ELSE IF answer = "200_not_object" THEN {"raised"}
    ELSE {"retry"}

\* what one pass of the loop of wait_for_infisical does with an answer
InfisicalProbeResults(answer) ==
    IF answer \in {"200_object", "200_not_json", "200_not_object"} THEN {"True"}
    ELSE {"retry"}

ProbeResults(command, answer) ==
    IF command = "gitea_setup" THEN GiteaProbeResults(answer)
    ELSE InfisicalProbeResults(answer)

\* gitea_setup.main(): the admin password comes from the environment
GiteaStart ==
    /\ pc = "idle"
    /\ runs = 0
    /\ runs' = 1
    /\ cmd' = [command |-> "gitea_setup"]
    /\ loc' = [attempt |-> 0, token |-> <<>>]
    /\ calls' = <<>>
    /\ ret' = "none"
    /\ \E password_set \in BOOLEAN :
          IF password_set
          THEN /\ out' = <<<<"header", <<"gitea_setup">>>>>>
               /\ pc' = "wait"
               /\ exitCode' = "none"
          ELSE /\ out' = <<<<"header", <<"gitea_setup">>>>, <<"password_not_set", <<>>>>>>
               /\ Exit(1)
    /\ UNCHANGED <<fsVars, hostVars, peer, restored>>

\* infisical_sync.main(): --push, --pull or neither
InfisicalStart ==
    /\ pc = "idle"
    /\ runs = 0
    /\ runs' = 1
    /\ \E mode \in {"push", "pull", "none"} :
          cmd' = [command |-> "infisical_sync", mode |-> mode]
    /\ loc' = [attempt |-> 0]
    /\ out' = <<<<"header", <<"infisical_sync">>>>>>
    /\ calls' = <<>>
    /\ pc' = "wait"
    /\ ret' = "none"
    /\ exitCode' = "none"
    /\ UNCHANGED <<fsVars, hostVars, peer, restored>>

\* one pass of the for loop of wait_for_gitea / wait_for_infisical; after
\* the last pass the function returns False and main() exits with 1
WaitProbe ==
    /\ pc = "wait"
    /\ loc.attempt < MaxRetries
    /\ \E answer \in ProbeAnswers :
       \E result \in ProbeResults(cmd.command, answer) :
          /\ calls' = Append(calls, <<"probe", ProbeUrl(cmd.command), answer>>)
          /\ loc' = [loc EXCEPT !.attempt = @ + 1]
          /\ CASE result = "True" ->
                    /\ out' = Append(out, <<"ready", <<>>>>)
                    /\ ret' = "True"
                    /\ pc' = IF cmd.command = "gitea_setup" THEN "gitea_admin" ELSE "inf_sync"
                    /\ exitCode' = exitCode
               [] result = "raised" ->
                    /\ out' = Append(out, <<"traceback", <<>>>>)
                    /\ Crash
               [] OTHER ->
                    IF loc.attempt + 1 < MaxRetries
                    THEN /\ out' = Append(out, <<"attempt", <<>>>>)
                         /\ UNCHANGED <<pc, ret, exitCode>>
                    ELSE /\ out' = out \o <<<<"attempt", <<>>>>, <<"not_ready", <<>>>>>>
                         /\ ret' = "False"
                         /\ Exit(1)
    /\ UNCHANGED <<cmd, runs, fsVars, hostVars, peer, restored>>

\* the rest of infisical_sync.main(). read_env_file may find secrets when
\* the file exists (a value that is no placeholder); push_to_infisical_cli
\* uses the name subprocess, which the module does not import (main() imports
\* it as a local name): NameError
InfisicalSync ==
    /\ pc = "inf_sync"
    /\ \/ /\ cmd.mode = "push"
          /\ \/ /\ out' = Append(out, <<"no_secrets", <<>>>>)
                /\ Exit(1)
                /\ UNCHANGED ret
             \/ /\ ".env" \in DOMAIN cwd
                /\ out' = out \o <<<<"pushing", <<>>>>, <<"traceback", <<>>>>>>
                /\ Crash
       \/ /\ cmd.mode # "push"
          /\ out' = Append(out, <<IF cmd.mode = "pull" THEN "pull_instructions"
                                  ELSE "setup_instructions", <<>>>>)
          /\ Exit(0)
          /\ UNCHANGED ret
    /\ UNCHANGED <<cmd, loc, calls, runs, fsVars, hostVars, peer, restored>>

\* create_admin_user(): the user is listed already, or is created; every
\* exception is caught and gives False
GiteaCreateAdmin ==
    /\ pc = "gitea_admin"
    /\ \E listing \in {"listed", "absent", "timeout"} :
       \E create \in {"ok", "nonzero", "timeout"} :
          /\ listing # "absent" => create = "ok"
          /\ calls' = calls \o << <<"gitea_user_list", <<>>, listing>> >> \o
                        (IF listing = "absent"
                         THEN << <<"gitea_user_create", <<>>, create>> >> ELSE <<>>)
          /\ StepDone("admin_user", listing # "timeout" /\ create = "ok", "gitea_token")
    /\ UNCHANGED <<cmd, loc, ret, runs, fsVars, hostVars, peer, restored>>

\* faulty variant: main() exits when no token could be created
GiteaCreateToken_Required ==
    /\ pc = "gitea_token"
    /\ \E answer \in {"201", "201_not_json", "422", "500", "raised"} :
          /\ calls' = Append(calls, <<"gitea_token", <<"basic">>, answer>>)
          /\ loc' = [loc EXCEPT !.token = IF answer = "201" THEN <<"sha1">> ELSE <<>>]
          /\ StepDone("access_token", answer = "201", "gitea_repo")
    /\ UNCHANGED <<cmd, ret, runs, fsVars, hostVars, peer, restored>>

\* create_access_token(): the token of a 201 answer, or None; main() does
\* not look at the result
GiteaCreateToken ==
    /\ pc = "gitea_token"
    /\ \E answer \in {"201", "201_not_json", "422", "500", "raised"} :
          /\ calls' = Append(calls, <<"gitea_token", <<"basic">>, answer>>)
          /\ loc' = [loc EXCEPT !.token = IF answer = "201" THEN <<"sha1">> ELSE <<>>]
          /\ out' = Append(out, <<"access_token",
                                  <<IF answer = "201" THEN "ok" ELSE "failed">>>>)
    /\ pc' = "gitea_repo"
    /\ UNCHANGED <<cmd, ret, exitCode, runs, fsVars, hostVars, peer, restored>>

\* the credentials create_repository sends
GiteaAuth == IF loc.token # <<>> THEN <<"token">> ELSE <<"basic">>

\* create_repository(): the repository exists already, or is created
GiteaCreateRepo ==
    /\ pc = "gitea_repo"
    /\ \E get \in {"200", "404", "raised"} :
       \E post \in {"201", "409", "raised"} :
          /\ get # "404" => post = "201"
          /\ calls' = calls \o << <<"gitea_repo_get", GiteaAuth, get>> >> \o
                        (IF get = "404"
                         THEN << <<"gitea_repo_create", GiteaAuth, post>> >> ELSE <<>>)
          /\ StepDone("repository", get = "200" \/ (get = "404" /\ post = "201"),
                      "gitea_remote")
    /\ UNCHANGED <<cmd, loc, ret, runs, fsVars, hostVars, peer, restored>>

\* the git commands of setup_git_remote() up to the first one that raises:
\* rev-parse; init, add ., commit when that failed; remote get-url; remote
\* set-url or remote add
GitRemoteCommands(rev, made, geturl, seturl) ==
    << <<"git", <<"rev-parse">>, rev>> >> \o
    (IF rev = "nonzero" /\ made = "ok"
     THEN << <<"git", <<"init">>, "ok">>, <<"git", <<"add", ".">>, "ok">>,
             <<"git", <<"commit">>, "ok">> >>
     ELSE IF rev = "nonzero"
     THEN << <<"git", <<"init">>, "failed">> >>
     ELSE <<>>) \o
    (IF rev = "timeout" \/ (rev = "nonzero" /\ made # "ok") THEN <<>>
     ELSE << <<"git", <<"remote", "get-url">>, geturl>> >> \o
          (IF geturl = "timeout" THEN <<>>
           ELSE << <<"git", <<"remote", IF geturl = "ok" THEN "set-url" ELSE "add">>,
                     seturl>> >>))

\* setup_git_remote(): True when no command has raised
GiteaSetupRemote ==
    /\ pc = "gitea_remote"
    /\ \E rev \in {"ok", "nonzero", "timeout"}, made \in {"ok", "failed"},
          geturl \in {"ok", "nonzero", "timeout"}, seturl \in {"ok", "failed"} :
          LET commands == GitRemoteCommands(rev, made, geturl, seturl) IN
          /\ calls' = calls \o commands
          /\ StepDone("git_remote",
                      commands[Len(commands)][3] \in {"ok", "nonzero"}
                         /\ commands[Len(commands)][2][1] = "remote"
                         /\ commands[Len(commands)][2][2] # "get-url",
                      "gitea_push")
    /\ UNCHANGED <<cmd, loc, ret, runs, fsVars, hostVars, peer, restored>>

\* the git commands of push_to_gitea() up to the first one that raises
GitPushCommands(branch, checkout, push) ==
    << <<"git", <<"branch">>, branch>> >> \o
    (IF branch = "detached" THEN << <<"git", <<"checkout">>, checkout>> >> ELSE <<>>) \o
    (IF branch = "timeout" \/ (branch = "detached" /\ checkout = "failed") THEN <<>>
     ELSE << <<"git", <<"push", "gitea">>, push>> >>)

\* push_to_gitea(), whose result main() does not look at, and the end of
\* main()
GiteaPush ==
    /\ pc = "gitea_push"
    /\ \E branch \in {"ok", "detached", "timeout"}, checkout \in {"ok", "failed"},
          push \in {"ok", "nonzero", "timeout"} :
          LET commands == GitPushCommands(branch, checkout, push) IN
          /\ calls' = calls \o commands
          /\ out' = out \o <<<<"push", <<IF commands[Len(commands)] = <<"git", <<"push", "gitea">>, "ok">>
                                         THEN "ok" ELSE "failed">>>>,
                             <<"setup_complete", <<>>>>>>
    /\ Exit(0)
    /\ UNCHANGED <<cmd, loc, ret, runs, fsVars, hostVars, peer, restored>>

\* encrypt_secrets.main()
EncryptStart ==
    /\ pc = "idle"
    /\ runs = 0
    /\ runs' = 1
    /\ cmd' = [command |-> "encrypt_secrets"]
    /\ loc' = [public_key |-> <<>>, before |-> cwd]
    /\ out' = <<<<"header", <<"encrypt_secrets">>>>>>
    /\ calls' = <<>>
    /\ pc' = "enc_check"
    /\ ret' = "none"
    /\ exitCode' = "none"
    /\ UNCHANGED <<fsVars, hostVars, peer, restored>>

\* check_sops_age_installed(): sops --version, then age --version; only
\* FileNotFoundError is caught, a timeout leaves main()
EncryptCheckTools ==
    /\ pc = "enc_check"
    /\ \E sops \in HelperOutcomes, age \in HelperOutcomes :
          /\ calls' = calls \o << <<"sops_version", <<>>, sops>> >> \o
                        (IF sops = "timeout" THEN <<>>
                         ELSE << <<"age_version", <<>>, age>> >>)
          /\ IF sops = "timeout" \/ age = "timeout"
             THEN /\ out' = Append(out, <<"traceback", <<>>>>)
                  /\ Crash
             ELSE /\ StepDone("tools", sops = "ok" /\ age = "ok", "enc_key")
                  /\ UNCHANGED ret
    /\ UNCHANGED <<cmd, loc, runs, fsVars, hostVars, peer, restored>>

\* generate_age_key(): the public key of the key file that exists, or of a
\* new key pair; "" when age-keygen fails or its output names no key
EncryptKey ==
    /\ pc = "enc_key"
    /\ \E key_file \in {"has_key", "no_public_key", "absent"} :
       \E keygen \in {"ok", "ok_no_public_key", "nonzero", "nolaunch"} :
          LET public_key == IF key_file = "has_key" \/ keygen = "ok"
                            THEN <<"age1">> ELSE <<>>
          IN
          /\ key_file = "has_key" => keygen = "ok"
          /\ calls' = calls \o (IF key_file = "has_key" THEN <<>>
                                ELSE << <<"age_keygen", <<>>, keygen>> >>)
          /\ loc' = [loc EXCEPT !.public_key = public_key]
          /\ StepDone("age_key", public_key # <<>>, "enc_sops")
    /\ UNCHANGED <<cmd, ret, runs, fsVars, hostVars, peer, restored>>

\* update_sops_config(): .sops.yaml is read and written back with the
\* public key in the place of the placeholder
EncryptSopsConfig ==
    /\ pc = "enc_sops"
    /\ \/ /\ ".sops.yaml" \notin DOMAIN cwd
          /\ StepDone("sops_config", FALSE, "enc_env")
          /\ UNCHANGED cwd
       \/ /\ ".sops.yaml" \in DOMAIN cwd
          /\ \/ /\ cwd' = [cwd EXCEPT ![".sops.yaml"] = 2]
                /\ StepDone("sops_config", TRUE, "enc_env")
             \/ /\ UNCHANGED cwd
                /\ StepDone("sops_config", FALSE, "enc_env")
    /\ UNCHANGED <<cmd, loc, ret, calls, runs, archives, sidecars, exportDirs,
                   restoreTemp, origin, hostVars, peer, restored>>

\* faulty variant: what sops has printed is written whatever its status
EncryptWrites_Always(outcome) == outcome \in {"ok", "nonzero"}

\* encrypt_env_file(): .env.enc is written if result.returncode == 0
EncryptWrites(outcome) == outcome = "ok"

\* encrypt_env_file(".env"): sops --encrypt .env, its output into .env.enc
EncryptEnv ==
    /\ pc = "enc_env"
    /\ \/ /\ ".env" \notin DOMAIN cwd
          /\ StepDone("encrypted", FALSE, "enc_gitignore")
          /\ UNCHANGED <<cwd, calls>>
       \/ /\ ".env" \in DOMAIN cwd
          /\ \E outcome \in {"ok", "nonzero", "timeout"}, written \in BOOLEAN :
                /\ calls' = Append(calls, <<"sops_encrypt", <<".env">>, outcome>>)
                \* open(encrypted_path, 'w') may fail: the exception is caught
                /\ written => EncryptWrites(outcome)
                /\ (outcome = "nonzero" /\ EncryptWrites(outcome)) => written
                /\ cwd' = IF written THEN Put(cwd, ".env.enc", 2) ELSE cwd
                /\ StepDone("encrypted", outcome = "ok" /\ written, "enc_gitignore")
    /\ UNCHANGED <<cmd, loc, ret, runs, archives, sidecars, exportDirs,
                   restoreTemp, origin, hostVars, peer, restored>>

\* update_gitignore(): the lines are appended unless ".env" is in the file
EncryptGitignore ==
    /\ pc = "enc_gitignore"
    /\ cwd' = IF ".gitignore" \in DOMAIN cwd THEN cwd ELSE Put(cwd, ".gitignore", 2)
    /\ out' = Append(out, <<"gitignore", <<"ok">>>>)
    /\ pc' = "enc_git"
    /\ UNCHANGED <<cmd, loc, ret, exitCode, calls, runs, archives, sidecars, exportDirs,
                   restoreTemp, origin, hostVars, peer, restored>>

\* the git commands of commit_and_push_encrypted() up to the first one that
\* raises: add (check=True), commit, remote get-url, push
GitCommitCommands(add, commit, geturl, push) ==
    << <<"git", <<"add", ".env.enc", ".sops.yaml", ".gitignore">>, add>> >> \o
    (IF add # "ok" THEN <<>>
     ELSE << <<"git", <<"commit">>, commit>> >> \o
          (IF commit = "timeout" THEN <<>>
           ELSE << <<"git", <<"remote", "get-url">>, geturl>> >> \o
                (IF geturl = "ok" THEN << <<"git", <<"push", "gitea">>, push>> >>
                 ELSE <<>>)))

\* commit_and_push_encrypted(), which always returns True, and the end of
\* main()
EncryptCommit ==
    /\ pc = "enc_git"
    /\ \E add \in {"ok", "failed"}, commit \in {"ok", "nonzero", "timeout"},
          geturl \in {"ok", "nonzero"}, push \in {"ok", "nonzero", "timeout"} :
          calls' = calls \o GitCommitCommands(add, commit, geturl, push)
    /\ out' = out \o <<<<"committed", <<>>>>, <<"setup_complete", <<>>>>>>
    /\ Exit(0)
    /\ UNCHANGED <<cmd, loc, ret, runs, fsVars, hostVars, peer, restored>>

\* the paths --output may name
BootstrapOutputs == {".env", "custom.env"}

\* how often the user may give an answer that is neither yes nor no
MaxReprompts == 1

\* what the user may type at "Overwrite existing configuration? [y/N]"
OverwriteAnswers == {"y", "yes", "n", "no", "", "maybe", "eof"}

\* faulty variant: the answer is not looked at
Overwrites_Always(answer) == TRUE

\* prompt_yes_no(..., default=False): y / yes is True; n, no and the empty
\* answer are False
Overwrites(answer) == answer \in {"y", "yes"}

\* bootstrap.main() parses the command line
BootstrapStart ==
    /\ pc = "idle"
    /\ runs = 0
    /\ runs' = 1
    /\ \E output \in BootstrapOutputs, skip_checks \in BOOLEAN :
          /\ cmd' = [command |-> "bootstrap", output |-> output, skip_checks |-> skip_checks]
          /\ pc' = IF skip_checks THEN "boot_exists" ELSE "boot_checks"
    /\ loc' = [creds |-> <<>>, before |-> cwd]
    /\ out' = <<<<"header", <<"bootstrap">>>>>>
    /\ calls' = <<>>
    /\ ret' = "none"
    /\ exitCode' = "none"
    /\ UNCHANGED <<fsVars, hostVars, peer, restored>>

\* check_prerequisites(): docker, docker compose and git must answer with
\* status 0 (the optional tools are only reported)
BootstrapChecks ==
    /\ pc = "boot_checks"
    /\ \E docker \in HelperOutcomes, compose \in HelperOutcomes, git \in HelperOutcomes :
          /\ calls' = calls \o << <<"docker_version", <<>>, docker>>,
                                  <<"docker_compose_version", <<>>, compose>>,
                                  <<"git_version", <<>>, git>> >>
          /\ StepDone("prerequisites", docker = "ok" /\ compose = "ok" /\ git = "ok",
                      "boot_exists")
    /\ UNCHANGED <<cmd, loc, ret, runs, fsVars, hostVars, peer, restored>>

\* if os.path.exists(args.output): ask before overwriting
BootstrapExists ==
    /\ pc = "boot_exists"
    /\ \/ /\ cmd.output \notin DOMAIN cwd
          /\ pc' = "boot_collect"
          /\ UNCHANGED <<out, ret, exitCode>>
       \/ /\ cmd.output \in DOMAIN cwd
          /\ \E answer \in OverwriteAnswers :
                IF answer = "eof"
                THEN /\ out' = out \o <<<<"overwrite", <<answer>>>>, <<"traceback", <<>>>>>>
                     /\ Crash
                ELSE IF answer = "maybe"
                THEN \* prompt_yes_no asks again
                     /\ Cardinality(Printed({"please_answer"})) < MaxReprompts
                     /\ out' = out \o <<<<"overwrite", <<answer>>>>, <<"please_answer", <<>>>>>>
                     /\ UNCHANGED <<pc, ret, exitCode>>
                ELSE IF Overwrites(answer)
                THEN /\ out' = Append(out, <<"overwrite", <<answer>>>>)
                     /\ pc' = "boot_collect"
                     /\ UNCHANGED <<ret, exitCode>>
                ELSE /\ out' = out \o <<<<"overwrite", <<answer>>>>, <<"cancelled", <<>>>>>>
                     /\ Exit(0)
                     /\ UNCHANGED ret
    /\ UNCHANGED <<cmd, loc, calls, runs, fsVars, hostVars, peer, restored>>

\* collect_credentials(): the prompts are answered, or the input ends
BootstrapCollect ==
    /\ pc = "boot_collect"
    /\ \/ /\ \E profile \in {"cpu", "gpu-nvidia"}, environment \in {"private", "public"} :
                loc' = [loc EXCEPT !.creds = <<[HARDWARE_PROFILE |-> profile,
                                                ENVIRONMENT |-> environment]>>]
          /\ pc' = "boot_write_env"
          /\ UNCHANGED <<out, ret, exitCode>>
       \/ /\ out' = Append(out, <<"traceback", <<>>>>)
          /\ Crash
          /\ UNCHANGED loc
    /\ UNCHANGED <<cmd, calls, runs, fsVars, hostVars, peer, restored>>

\* write_env_file(): open(output_path, 'w') and write
BootstrapWriteEnv ==
    /\ pc = "boot_write_env"
    /\ \/ /\ cwd' = Put(cwd, cmd.output, 2)
          /\ out' = Append(out, <<"configuration_written", <<>>>>)
          /\ pc' = "boot_write_meta"
          /\ UNCHANGED <<ret, exitCode>>
       \/ /\ out' = Append(out, <<"traceback", <<>>>>)
          /\ Crash
          /\ UNCHANGED cwd
    /\ UNCHANGED <<cmd, loc, calls, runs, archives, sidecars, exportDirs,
                   restoreTemp, origin, hostVars, peer, restored>>

\* write_env_file(): .bootstrap_metadata.json; then the summary of main()
BootstrapWriteMeta ==
    /\ pc = "boot_write_meta"
    /\ \/ /\ cwd' = Put(cwd, ".bootstrap_metadata.json", 2)
          /\ out' = Append(out, <<"bootstrap_complete", <<>>>>)
          /\ Exit(0)
          /\ UNCHANGED ret
       \/ /\ out' = Append(out, <<"traceback", <<>>>>)
          /\ Crash
          /\ UNCHANGED cwd
    /\ UNCHANGED <<cmd, loc, calls, runs, archives, sidecars, exportDirs,
                   restoreTemp, origin, hostVars, peer, restored>>

NextScripts ==
    \/ GiteaStart
    \/ InfisicalStart
    \/ WaitProbe
    \/ InfisicalSync
    \/ GiteaCreateAdmin
    \/ GiteaCreateToken
    \/ GiteaCreateRepo
    \/ GiteaSetupRemote
    \/ GiteaPush
    \/ EncryptStart
    \/ EncryptCheckTools
    \/ EncryptKey
    \/ EncryptSopsConfig
    \/ EncryptEnv
    \/ EncryptGitignore
    \/ EncryptCommit
    \/ BootstrapStart
    \/ BootstrapChecks
    \/ BootstrapExists
    \/ BootstrapCollect
    \/ BootstrapWriteEnv
    \/ BootstrapWriteMeta

SpecScripts == InitScripts /\ [][NextScripts]_vars

----------------------------------------------------------------------------
(* Properties of the helper scripts *)

\* the process has ended with this exit status
ExitedWith(status) == pc \in {"done", "crashed"} /\ exitCode = status

Waiting == cmd.command \in {"gitea_setup", "infisical_sync"}

\* the readiness probes made so far, and those answered with HTTP 200
ProbeCalls == CallsOf({"probe"})
Probes200  == {i \in ProbeCalls :
                 calls[i][3] \in {"200_object", "200_not_json", "200_not_object"}}

\* C35 (as claimed): wait_for_gitea and wait_for_infisical make at most
\* max_retries probes; a probe answered with HTTP 200 is the last probe and
\* makes the function return True (the service is reported ready); and the
\* function returns False (not ready) only after max_retries probes none of
\* which was answered with 200.
C35_WaitStopsAtFirst200 ==
    Waiting =>
        /\ Cardinality(ProbeCalls) <= MaxRetries
        /\ \A i \in Probes200 :
              /\ Printed({"ready"}) # {}
              /\ \A j \in ProbeCalls : j <= i
        /\ (Printed({"not_ready"}) # {}) =>
              /\ Cardinality(ProbeCalls) = MaxRetries
              /\ Probes200 = {}

\* the step of gitea_setup.main() an external command belongs to: 1 wait,
\* 2 admin user, 3 token, 4 repository, 5 git remote, 6 push
GiteaStep(call) ==
    CASE call[1] = "probe" -> 1
      [] call[1] \in {"gitea_user_list", "gitea_user_create"} -> 2
      [] call[1] = "gitea_token" -> 3
      [] call[1] \in {"gitea_repo_get", "gitea_repo_create"} -> 4
      [] call[1] = "git" /\ call[2][1] \in {"branch", "checkout", "push"} -> 6
      [] OTHER -> 5

\* the steps whose failure ends gitea_setup, as the lines they print
GiteaFatalLines ==
    { <<"password_not_set", <<>>>>, <<"not_ready", <<>>>>,
      <<"admin_user", <<"failed">>>>, <<"repository", <<"failed">>>>,
      <<"git_remote", <<"failed">>>> }

\* the step a line of gitea_setup tells the end of
GiteaLineStep(line) ==
    CASE line[1] \in {"password_not_set", "header"} -> 0
      [] line[1] \in {"not_ready", "ready", "attempt", "traceback"} -> 1
      [] line[1] = "admin_user" -> 2
      [] line[1] = "access_token" -> 3
      [] line[1] = "repository" -> 4
      [] line[1] = "git_remote" -> 5
      [] OTHER -> 6

\* C36: the commands of gitea_setup come in the order wait, admin user,
\* token, repository, git remote, push, and a step runs only after the
\* steps before it have ended; when waiting, the admin user, the repository
\* or the git remote fails, that is the last thing the process does and it
\* exits with status 1; the process exits with a non-zero status for no
\* other reason than those and an exception during the wait; a failed token
\* creation is followed by the repository step, and a failed push by the
\* end of the setup with status 0.
C36_GiteaStepOrder ==
    (cmd.command = "gitea_setup") =>
        /\ \A i, j \in 1..Len(calls) : i < j => GiteaStep(calls[i]) <= GiteaStep(calls[j])
        /\ \A i \in 1..Len(calls) : \A n \in 1..(GiteaStep(calls[i]) - 1) :
              \E k \in 1..Len(out) : GiteaLineStep(out[k]) = n /\ out[k] \notin GiteaFatalLines
        /\ \A k \in 1..Len(out) : out[k] \in GiteaFatalLines =>
              /\ k = Len(out)
              /\ ExitedWith(1) /\ pc = "done"
              /\ \A i \in 1..Len(calls) : GiteaStep(calls[i]) <= GiteaLineStep(out[k])
        /\ ExitedWith(1) => (out[Len(out)] \in GiteaFatalLines \/ pc = "crashed")
        /\ (out[Len(out)] = <<"access_token", <<"failed">>>>) => pc = "gitea_repo"
        /\ (<<"push", <<"failed">>>> \in Range(out)) =>
              /\ ExitedWith(0)
              /\ out[Len(out)] = <<"setup_complete", <<>>>>

C36_Witness ==
    /\ cmd.command = "gitea_setup"
    /\ ExitedWith(0)
    /\ <<"access_token", <<"failed">>>> \in Range(out)
    /\ <<"push", <<"failed">>>> \in Range(out)
    /\ <<"git", <<"remote", "add">>, "ok">> \in Range(calls)

C36_WitnessAborted ==
    /\ cmd.command = "gitea_setup"
    /\ ExitedWith(1) /\ pc = "done"
    /\ out[Len(out)] = <<"repository", <<"failed">>>>
    /\ <<"access_token", <<"ok">>>> \in Range(out)

Encrypting == cmd.command = "encrypt_secrets"

\* the git commands the script has run
GitCalls == CallsOf({"git"})

C37_WitnessFailed ==
    /\ Encrypting /\ ExitedWith(1) /\ pc = "done"
    /\ CalledWith("sops_encrypt", "nonzero") # {}
    /\ DictGet(cwd, ".env.enc", 0) = 1

Bootstrapping == cmd.command = "bootstrap"

\* the answers to the overwrite question that do not confirm it
Declined == {out[k][2][1] : k \in Printed({"overwrite"})} \cap {"n", "no", ""}

\* C38: when the output file of bootstrap exists and the user does not
\* confirm the overwrite, no file of the working directory is changed or
\* made and the process ends with status 0; and the output file and
\* .bootstrap_metadata.json are written only after the credentials were
\* collected, the metadata after the output file.
C38_DeclinedOverwriteWritesNothing ==
    Bootstrapping =>
        /\ (Declined # {}) =>
              /\ cwd = loc.before
              /\ ExitedWith(0)
        /\ (cwd # loc.before) =>
              /\ loc.creds # <<>>
              /\ cmd.output \in DOMAIN loc.before => Printed({"overwrite"}) # {}
              /\ cwd[cmd.output] = 2
        /\ (pc \in {"boot_write_env", "boot_write_meta"}) => loc.creds # <<>>

C38_Witness ==
    /\ Bootstrapping /\ pc = "done"
    /\ Declined # {}
    /\ cmd.output \in DOMAIN cwd

C38_WitnessWritten ==
    /\ Bootstrapping /\ pc = "done"
    /\ cmd.output \in DOMAIN loc.before
    /\ cwd[cmd.output] = 2
    /\ cwd[".bootstrap_metadata.json"] = 2

====
